---- MODULE Spec2Model ----
(***************************************************************************)
(* A model of php-modfather: the import table and qualified-name resolver, *)
(* the declaration visitor, the dependency graph container and the         *)
(* namespace cycle detector.                                               *)
(*                                                                         *)
(* Strings are sequences of one-character strings, so that prefix tests,   *)
(* slicing, splitting, concatenation and ordering are computed as the      *)
(* source computes them.                                                   *)
(***************************************************************************)
EXTENDS Integers, Sequences, FiniteSets, Bags, TLC

VARIABLES
    imports,        \* resolver: the ImportContext of the scope being built
    res,            \* resolver: the last resolve_class_name call and its result
    graph,          \* the DependencyGraph (nodes: id -> Node, edges: HashSet<Edge>)
    op,             \* graph: the last operation applied to the graph
    pre,            \* graph: the graph before the last operation
    inserted,       \* graph: the edges passed to add_edge so far, in call order
    output,         \* the lines CsvWriter::write wrote
    rec,            \* the ModuleRecommender built from graph
    cycles,         \* the Vec<CycleDetection> returned by detect_cycles
    modules,        \* the Vec<ModuleSuggestion> returned by suggest_modules
    analyzer,       \* the ClassDependencyAnalyzer: classes and dependencies
    cur,            \* main: the file being analyzed, if any
    scopes,         \* visitor: the enclosing scopes, innermost last
    steps,          \* visitor: the number of statements visited so far
    visit,          \* visitor: the last statement visited; for a declaration, its context
    sources,        \* main: the discovered files, each with what read_file returns
    pos             \* main: the number of files the analysis loop has handled

vars == <<imports, res, graph, op, pre, inserted, output, rec, cycles, modules,
          analyzer, cur, scopes, steps, visit, sources, pos>>

---------------------------------------------------------------------------
(* Option<T>, HashMap<K, V>, strings                                       *)

None == [some |-> FALSE]

Some(v) == [some |-> TRUE, val |-> v]

EmptyMap == [k \in {} |-> {}]

MapInsert(m, k, v) == [x \in (DOMAIN m) \cup {k} |-> IF x = k THEN v ELSE m[x]]

Sep == "\\"

\* str.starts_with('\\')
StartsWithSep(s) == Len(s) > 0 /\ s[1] = Sep

\* format!("{}\\{}", ns, name)
FormatNs(ns, name) == ns \o <<Sep>> \o name

\* str.split('\\').last(): the text after the last separator
LastSegment(s) ==
    LET idx == {i \in 1..Len(s) : s[i] = Sep}
        last == IF idx = {} THEN 0 ELSE CHOOSE i \in idx : \A j \in idx : j <= i
    IN  SubSeq(s, last + 1, Len(s))

\* str.split('\\').next(): the text before the first separator
FirstSegment(s) ==
    LET idx == {i \in 1..Len(s) : s[i] = Sep}
        first == IF idx = {} THEN Len(s) + 1 ELSE CHOOSE i \in idx : \A j \in idx : i <= j
    IN  SubSeq(s, 1, first - 1)

UpperChars == <<"A","B","C","D","E","F","G","H","I","J","K","L","M",
                "N","O","P","Q","R","S","T","U","V","W","X","Y","Z">>

LowerChars == <<"a","b","c","d","e","f","g","h","i","j","k","l","m",
                "n","o","p","q","r","s","t","u","v","w","x","y","z">>

\* char::to_lowercase on the ASCII letters
ToLowerChar(c) ==
    IF \E i \in 1..Len(UpperChars) : UpperChars[i] = c
    THEN LowerChars[CHOOSE i \in 1..Len(UpperChars) : UpperChars[i] = c]
    ELSE c

\* str.to_lowercase()
ToLowercase(s) == [i \in 1..Len(s) |-> ToLowerChar(s[i])]

\* The byte order of the characters used: 'A'..'Z' < '\\' < 'a'..'z'
ByteOrder == UpperChars \o <<Sep>> \o LowerChars

CharRank(c) == CHOOSE i \in 1..Len(ByteOrder) : ByteOrder[i] = c

\* String's Ord: lexicographic by byte, a proper prefix first
StrLess(a, b) ==
    \E i \in 1..(Len(b)) :
        /\ \A j \in 1..(i - 1) : j <= Len(a) /\ a[j] = b[j]
        /\ \/ i = Len(a) + 1
           \/ i <= Len(a) /\ CharRank(a[i]) < CharRank(b[i])

\* Vec<String>::sort() of the strings of a set
RECURSIVE SortedSeq(_)
SortedSeq(S) ==
    IF S = {} THEN <<>>
    ELSE LET m == CHOOSE x \in S : \A y \in S \ {x} : StrLess(x, y)
         IN  <<m>> \o SortedSeq(S \ {m})

---------------------------------------------------------------------------
(* ImportContext and the qualified-name resolver                           *)

\* An add_import that keeps the first full name bound to a short name
add_import_keep_first(imp, fully_qualified, alias) ==
    LET short_name == IF alias.some THEN alias.val
                      ELSE LastSegment(fully_qualified)
    IN  IF short_name \in DOMAIN imp THEN imp
        ELSE MapInsert(imp, short_name, fully_qualified)

\* ImportContext::add_import
add_import(imp, fully_qualified, alias) ==
    LET short_name == IF alias.some THEN alias.val
                      ELSE LastSegment(fully_qualified)
    IN  MapInsert(imp, short_name, fully_qualified)

\* ImportContext::resolve
import_resolve(imp, name) ==
    IF name \in DOMAIN imp THEN Some(imp[name]) ELSE None

\* A resolver that tries the enclosing namespace before the import table
resolve_namespace_first(name, namespace, imp) ==
    IF StartsWithSep(name) THEN SubSeq(name, 2, Len(name))
    ELSE IF namespace.some THEN FormatNs(namespace.val, name)
    ELSE IF import_resolve(imp, name).some THEN import_resolve(imp, name).val
    ELSE name

\* A resolver that consults the import table before looking at the leading
\* separator, and matches the import by the last segment
resolve_import_first(name, namespace, imp) ==
    IF import_resolve(imp, LastSegment(name)).some
    THEN import_resolve(imp, LastSegment(name)).val
    ELSE IF StartsWithSep(name) THEN SubSeq(name, 2, Len(name))
    ELSE IF namespace.some THEN FormatNs(namespace.val, name)
    ELSE name

\* A resolver that matches an import on the first segment of a qualified
\* name and treats an empty namespace as absent
resolve_prefix_import(name, namespace, imp) ==
    IF StartsWithSep(name) THEN SubSeq(name, 2, Len(name))
    ELSE IF import_resolve(imp, name).some THEN import_resolve(imp, name).val
    ELSE IF import_resolve(imp, FirstSegment(name)).some
    THEN import_resolve(imp, FirstSegment(name)).val
         \o SubSeq(name, Len(FirstSegment(name)) + 1, Len(name))
    ELSE IF namespace.some /\ namespace.val # <<>> THEN FormatNs(namespace.val, name)
    ELSE name

\* ClassDependencyAnalyzer::resolve_class_name
resolve_class_name(name, namespace, imp) ==
    IF StartsWithSep(name) THEN SubSeq(name, 2, Len(name))
    ELSE IF import_resolve(imp, name).some THEN import_resolve(imp, name).val
    ELSE IF namespace.some THEN FormatNs(namespace.val, name)
    ELSE name

---------------------------------------------------------------------------
(* Node, Edge and DependencyGraph                                          *)

\* Node::new
Node_new(id, label) == [id |-> id, label |-> label, metadata |-> EmptyMap]

\* Node::with_metadata
Node_with_metadata(node, key, value) ==
    [node EXCEPT !.metadata = MapInsert(node.metadata, key, value)]

\* Edge::new
Edge_new(from, to) == [from |-> from, to |-> to, label |-> None, metadata |-> EmptyMap]

\* Edge::with_label
Edge_with_label(edge, label) == [edge EXCEPT !.label = Some(label)]

\* Edge::with_metadata
Edge_with_metadata(edge, key, value) ==
    [edge EXCEPT !.metadata = MapInsert(edge.metadata, key, value)]

\* #[derive(PartialEq, Eq)] on Edge: all four fields are compared
Edge_eq(a, b) ==
    /\ a.from = b.from
    /\ a.to = b.to
    /\ a.label = b.label
    /\ a.metadata = b.metadata

\* DependencyGraph::new
DependencyGraph_new == [nodes |-> EmptyMap, edges |-> EmptyBag]

\* A Vec-like insert that never looks for an equal element
insert_always(set, edge) == set (+) SetToBag({edge})

\* HashSet<Edge>::insert: the set is unchanged when it holds an element equal
\* to the new one (Eq decides; Hash only picks the bucket)
HashSet_insert(set, edge) ==
    IF \E x \in BagToSet(set) : Edge_eq(x, edge)
    THEN set
    ELSE set (+) SetToBag({edge})

\* The edges of a graph as a set
EdgeSet(g) == BagToSet(g.edges)

\* DependencyGraph::add_node
add_node(g, node) == [g EXCEPT !.nodes = MapInsert(g.nodes, node.id, node)]

\* An add_edge that creates the endpoint nodes without testing for them
add_edge_overwrite(g, edge) ==
    LET g1 == add_node(g, Node_new(edge.from, edge.from))
        g2 == add_node(g1, Node_new(edge.to, edge.to))
    IN  [g2 EXCEPT !.edges = HashSet_insert(g2.edges, edge)]

\* DependencyGraph::add_edge
add_edge(g, edge) ==
    LET g1 == IF edge.from \notin DOMAIN g.nodes
              THEN add_node(g, Node_new(edge.from, edge.from))
              ELSE g
        g2 == IF edge.to \notin DOMAIN g1.nodes
              THEN add_node(g1, Node_new(edge.to, edge.to))
              ELSE g1
    IN  [g2 EXCEPT !.edges = HashSet_insert(g2.edges, edge)]

---------------------------------------------------------------------------
(* ClassDependencyAnalyzer: the declaration visitor                        *)
(*                                                                         *)
(* A declaration is [kind, name, extends, implements, backing, members];   *)
(* a member is [kind |-> "TraitUse", trait_names], [kind |-> "Property",   *)
(* hint], [kind |-> "Method", return_type_hint, parameters] or             *)
(* [kind |-> "Other"]; a hint is [kind |-> "Identifier", name],            *)
(* [kind |-> "Nullable" / "Parenthesized", hint], [kind |-> "Union" /      *)
(* "Intersection", left, right] or [kind |-> "Other"] (the parser's own    *)
(* variants for the built-in types).                                       *)

\* ClassDependencyAnalyzer::new
ClassDependencyAnalyzer_new == [classes |-> EmptyMap, dependencies |-> EmptyMap]

\* The names is_class_type filters out
BuiltinTypes ==
    {<<"i","n","t">>, <<"f","l","o","a","t">>, <<"s","t","r","i","n","g">>,
     <<"b","o","o","l">>, <<"a","r","r","a","y">>, <<"o","b","j","e","c","t">>,
     <<"c","a","l","l","a","b","l","e">>, <<"i","t","e","r","a","b","l","e">>,
     <<"v","o","i","d">>, <<"m","i","x","e","d">>, <<"n","e","v","e","r">>,
     <<"t","r","u","e">>, <<"f","a","l","s","e">>, <<"n","u","l","l">>,
     <<"s","e","l","f">>, <<"p","a","r","e","n","t">>, <<"s","t","a","t","i","c">>}

\* ClassDependencyAnalyzer::is_class_type
is_class_type(type_name) == ToLowercase(type_name) \notin BuiltinTypes

\* A get_fqn that leaves the namespace out
get_fqn_bare(name, namespace) == name

\* ClassDependencyAnalyzer::get_fqn
get_fqn(name, namespace) ==
    IF StartsWithSep(name) THEN name
    ELSE IF namespace.some THEN FormatNs(namespace.val, name)
    ELSE name

\* ClassDependencyAnalyzer::extract_namespace_name: the name is None, or
\* Some of a Local, Qualified or FullyQualified identifier
extract_namespace_name(name) ==
    IF name.some
    THEN IF StartsWithSep(name.val) THEN <<>> ELSE name.val
    ELSE <<>>

\* An add_dependency that keeps only the newest target of an entity
add_dependency_replace(deps, from, to) == MapInsert(deps, from, {to})

\* An add_dependency that keeps the first target recorded for an entity
add_dependency_keep_first(deps, from, to) ==
    IF from \in DOMAIN deps THEN deps ELSE MapInsert(deps, from, {to})

\* ClassDependencyAnalyzer::add_dependency
add_dependency(deps, from, to) ==
    MapInsert(deps, from, (IF from \in DOMAIN deps THEN deps[from] ELSE {}) \cup {to})

\* for name in names { add_dependency(from, resolve_class_name(name, ..)) }
RECURSIVE add_resolved(_, _, _, _, _)
add_resolved(deps, names, from, namespace, imp) ==
    IF names = <<>> THEN deps
    ELSE add_resolved(
            add_dependency(deps, from, resolve_class_name(Head(names), namespace, imp)),
            Tail(names), from, namespace, imp)

\* A hint walk that follows only the left side of a union or intersection
RECURSIVE extract_hint_left_only(_, _, _, _, _)
extract_hint_left_only(deps, hint, current_class, namespace, imp) ==
    CASE hint.kind = "Identifier" ->
            IF is_class_type(hint.name)
            THEN add_dependency(deps, current_class,
                                resolve_class_name(hint.name, namespace, imp))
            ELSE deps
      [] hint.kind \in {"Parenthesized", "Nullable"} ->
            extract_hint_left_only(deps, hint.hint, current_class, namespace, imp)
      [] hint.kind \in {"Union", "Intersection"} ->
            extract_hint_left_only(deps, hint.left, current_class, namespace, imp)
      [] OTHER -> deps

\* ClassDependencyAnalyzer::extract_hint_dependencies
RECURSIVE extract_hint_dependencies(_, _, _, _, _)
extract_hint_dependencies(deps, hint, current_class, namespace, imp) ==
    CASE hint.kind = "Identifier" ->
            IF is_class_type(hint.name)
            THEN add_dependency(deps, current_class,
                                resolve_class_name(hint.name, namespace, imp))
            ELSE deps
      [] hint.kind \in {"Parenthesized", "Nullable"} ->
            extract_hint_dependencies(deps, hint.hint, current_class, namespace, imp)
      [] hint.kind \in {"Union", "Intersection"} ->
            extract_hint_dependencies(
                extract_hint_dependencies(deps, hint.left, current_class, namespace, imp),
                hint.right, current_class, namespace, imp)
      [] OTHER -> deps

\* if let Some(ref hint) = .. { extract_hint_dependencies(hint, ..) }
extract_optional_hint(deps, hint, current_class, namespace, imp) ==
    IF hint.some
    THEN extract_hint_dependencies(deps, hint.val, current_class, namespace, imp)
    ELSE deps

\* for param in parameters { if let Some(ref hint) = param.hint { .. } }
RECURSIVE extract_parameter_hints(_, _, _, _, _)
extract_parameter_hints(deps, parameters, current_class, namespace, imp) ==
    IF parameters = <<>> THEN deps
    ELSE extract_parameter_hints(
            extract_optional_hint(deps, Head(parameters), current_class, namespace, imp),
            Tail(parameters), current_class, namespace, imp)

\* ClassDependencyAnalyzer::visit_class_member
visit_class_member(deps, member, current_class, namespace, imp) ==
    CASE member.kind = "TraitUse" ->
            add_resolved(deps, member.trait_names, current_class, namespace, imp)
      [] member.kind = "Property" ->
            extract_optional_hint(deps, member.hint, current_class, namespace, imp)
      [] member.kind = "Method" ->
            extract_parameter_hints(
                extract_optional_hint(deps, member.return_type_hint,
                                      current_class, namespace, imp),
                member.parameters, current_class, namespace, imp)
      [] OTHER -> deps

\* for member in members { visit_class_member(member, ..) }
RECURSIVE visit_members(_, _, _, _, _)
visit_members(deps, members, current_class, namespace, imp) ==
    IF members = <<>> THEN deps
    ELSE visit_members(
            visit_class_member(deps, Head(members), current_class, namespace, imp),
            Tail(members), current_class, namespace, imp)

\* ClassDependencyAnalyzer::process_class
process_class(a, class, file_path, namespace, imp) ==
    LET fqn == get_fqn(class.name, namespace)
        d1 == add_resolved(a.dependencies, class.extends, fqn, namespace, imp)
        d2 == add_resolved(d1, class.implements, fqn, namespace, imp)
    IN  [classes |-> MapInsert(a.classes, fqn, file_path),
         dependencies |-> visit_members(d2, class.members, fqn, namespace, imp)]

\* ClassDependencyAnalyzer::process_interface
process_interface(a, interface, file_path, namespace, imp) ==
    LET fqn == get_fqn(interface.name, namespace)
    IN  [classes |-> MapInsert(a.classes, fqn, file_path),
         dependencies |->
            add_resolved(a.dependencies, interface.extends, fqn, namespace, imp)]

\* ClassDependencyAnalyzer::process_trait
process_trait(a, trait_def, file_path, namespace, imp) ==
    LET fqn == get_fqn(trait_def.name, namespace)
    IN  [classes |-> MapInsert(a.classes, fqn, file_path),
         dependencies |->
            visit_members(a.dependencies, trait_def.members, fqn, namespace, imp)]

\* ClassDependencyAnalyzer::process_enum
process_enum(a, enum_def, file_path, namespace, imp) ==
    LET fqn == get_fqn(enum_def.name, namespace)
        d1 == extract_optional_hint(a.dependencies, enum_def.backing, fqn, namespace, imp)
    IN  [classes |-> MapInsert(a.classes, fqn, file_path),
         dependencies |-> add_resolved(d1, enum_def.implements, fqn, namespace, imp)]

\* ClassDependencyAnalyzer::visit_statement, the four declaration arms
visit_declaration(a, decl, file_path, namespace, imp) ==
    CASE decl.kind = "Class" -> process_class(a, decl, file_path, namespace, imp)
      [] decl.kind = "Interface" -> process_interface(a, decl, file_path, namespace, imp)
      [] decl.kind = "Trait" -> process_trait(a, decl, file_path, namespace, imp)
      [] decl.kind = "Enum" -> process_enum(a, decl, file_path, namespace, imp)

\* process_use_statement: for item in seq.items { imports.add_import(..) }
RECURSIVE process_use_statement(_, _)
process_use_statement(imp, items) ==
    IF items = <<>> THEN imp
    ELSE process_use_statement(
            add_import(imp, Head(items).name, Head(items).alias), Tail(items))

\* build_graph: for (class_name, file_path) in &self.classes { add_node(..) }
RECURSIVE add_class_nodes(_, _, _)
add_class_nodes(g, classes, todo) ==
    IF todo = {} THEN g
    ELSE LET class_name == CHOOSE c \in todo : TRUE
             node == Node_with_metadata(
                        Node_with_metadata(Node_new(class_name, class_name),
                                           "file", classes[class_name]),
                        "type", "internal")
         IN  add_class_nodes(add_node(g, node), classes, todo \ {class_name})

\* A loop body that adds the edge whether or not its target is wanted
add_dependency_edge_dangling(g, a, from, to, include_external) ==
    LET is_external == to \notin DOMAIN a.classes
        g1 == IF is_external /\ include_external
              THEN add_node(g, Node_with_metadata(Node_new(to, to), "type", "external"))
              ELSE g
    IN  add_edge(g1, Edge_new(from, to))

\* A loop body that makes an external node for every target
add_dependency_edge_retag(g, a, from, to, include_external) ==
    LET is_external == to \notin DOMAIN a.classes
    IN  IF include_external \/ ~is_external
        THEN LET g1 == IF include_external
                       THEN add_node(g, Node_with_metadata(Node_new(to, to),
                                                           "type", "external"))
                       ELSE g
             IN  add_edge(g1, Edge_new(from, to))
        ELSE g

\* A loop body that draws the edge from the target to the entity
add_dependency_edge_reversed(g, a, from, to, include_external) ==
    LET is_external == to \notin DOMAIN a.classes
    IN  IF include_external \/ ~is_external
        THEN LET g1 == IF is_external /\ include_external
                       THEN add_node(g, Node_with_metadata(Node_new(to, to),
                                                           "type", "external"))
                       ELSE g
             IN  add_edge(g1, Edge_new(to, from))
        ELSE g

\* build_graph: the body of `for to in deps`
add_dependency_edge(g, a, from, to, include_external) ==
    LET is_external == to \notin DOMAIN a.classes
    IN  IF include_external \/ ~is_external
        THEN LET g1 == IF is_external /\ include_external
                       THEN add_node(g, Node_with_metadata(Node_new(to, to),
                                                           "type", "external"))
                       ELSE g
             IN  add_edge(g1, Edge_new(from, to))
        ELSE g

\* build_graph: for (from, deps) in &self.dependencies { for to in deps { .. } }
RECURSIVE add_dependency_edges(_, _, _, _)
add_dependency_edges(g, a, todo, include_external) ==
    IF todo = {} THEN g
    ELSE LET p == CHOOSE q \in todo : TRUE
         IN  add_dependency_edges(
                add_dependency_edge(g, a, p[1], p[2], include_external),
                a, todo \ {p}, include_external)

\* ClassDependencyAnalyzer::build_graph
build_graph(a, include_external) ==
    LET g0 == add_class_nodes(DependencyGraph_new, a.classes, DOMAIN a.classes)
        pairs == {p \in (DOMAIN a.dependencies) \X
                        UNION {a.dependencies[f] : f \in DOMAIN a.dependencies} :
                    p[2] \in a.dependencies[p[1]]}
    IN  add_dependency_edges(g0, a, pairs, include_external)

---------------------------------------------------------------------------
(* ClassDependencyAnalyzer: the walk over a parsed file, and main's loop   *)
(*                                                                         *)
(* A program is a sequence of statements; a statement is a declaration,    *)
(* [kind |-> "Use", items], [kind |-> "Namespace", name, statements] or    *)
(* [kind |-> "Other"]. The walk carries [analyzer, imports]: the analyzer  *)
(* and the import table of the scope whose statements are being visited.   *)

DeclarationKinds == {"Class", "Interface", "Trait", "Enum"}

RECURSIVE visit_statements(_, _, _, _)

\* A visit_statement whose namespace block starts from the import table of
\* the enclosing scope
visit_statement_inheriting(st, statement, file_path, namespace) ==
    CASE statement.kind = "Use" ->
            [st EXCEPT !.imports = process_use_statement(st.imports, statement.items)]
      [] statement.kind = "Namespace" ->
            LET ns_name == extract_namespace_name(statement.name)
                inner == visit_statements([analyzer |-> st.analyzer, imports |-> st.imports],
                                          statement.statements, file_path, Some(ns_name))
            IN  [st EXCEPT !.analyzer = inner.analyzer]
      [] statement.kind \in DeclarationKinds ->
            [st EXCEPT !.analyzer =
                visit_declaration(st.analyzer, statement, file_path, namespace, st.imports)]
      [] OTHER -> st

\* ClassDependencyAnalyzer::visit_statement
visit_statement(st, statement, file_path, namespace) ==
    CASE statement.kind = "Use" ->
            [st EXCEPT !.imports = process_use_statement(st.imports, statement.items)]
      [] statement.kind = "Namespace" ->
            LET ns_name == extract_namespace_name(statement.name)
                inner == visit_statements([analyzer |-> st.analyzer, imports |-> EmptyMap],
                                          statement.statements, file_path, Some(ns_name))
            IN  [st EXCEPT !.analyzer = inner.analyzer]
      [] statement.kind \in DeclarationKinds ->
            [st EXCEPT !.analyzer =
                visit_declaration(st.analyzer, statement, file_path, namespace, st.imports)]
      [] OTHER -> st

\* for statement in statements { self.visit_statement(statement, ..) }
visit_statements(st, statements, file_path, namespace) ==
    IF statements = <<>> THEN st
    ELSE visit_statements(visit_statement(st, Head(statements), file_path, namespace),
                          Tail(statements), file_path, namespace)

\* ClassDependencyAnalyzer::visit_program
visit_program(a, program, file_path, namespace) ==
    visit_statements([analyzer |-> a, imports |-> EmptyMap],
                     program, file_path, namespace).analyzer

\* parse_php_file: the tree the parser built, whole or partial; a parse error
\* is printed and the result is Ok
parse_php_file(content) == [ok |-> TRUE, program |-> content.program]

\* GraphAnalyzer::analyze for ClassDependencyAnalyzer: the analyzer after the
\* call and the Result returned
analyze(a, file_path, content) ==
    LET parsed == parse_php_file(content)
    IN  IF parsed.ok
        THEN [analyzer |-> visit_program(a, parsed.program, file_path, None), ok |-> TRUE]
        ELSE [analyzer |-> a, ok |-> FALSE]

\* A loop body that gives up what was collected when a file cannot be read
analyze_or_reset(a, source) ==
    IF source.content.some
    THEN analyze(a, source.path, source.content.val).analyzer
    ELSE ClassDependencyAnalyzer_new

\* main, the body of the loop over the files: match read_file(file_path)
analyze_file(a, source) ==
    IF source.content.some
    THEN analyze(a, source.path, source.content.val).analyzer
    ELSE a

---------------------------------------------------------------------------
(* ModuleRecommender: the namespace graph and the cycle detector           *)

Digits == <<"0","1","2","3","4","5","6","7","8","9">>

IsDigit(c) == \E i \in 1..Len(Digits) : Digits[i] = c

DigitVal(c) == (CHOOSE i \in 1..Len(Digits) : Digits[i] = c) - 1

RECURSIVE DecimalValue(_)
DecimalValue(s) ==
    IF s = <<>> THEN 0
    ELSE DecimalValue(SubSeq(s, 1, Len(s) - 1)) * 10 + DigitVal(s[Len(s)])

\* str::parse::<usize>().ok(): decimal digits, with an optional leading '+'
ParseUsize(s) ==
    LET body == IF Len(s) > 0 /\ s[1] = "+" THEN SubSeq(s, 2, Len(s)) ELSE s
    IN  IF body # <<>> /\ \A i \in 1..Len(body) : IsDigit(body[i])
        THEN Some(DecimalValue(body))
        ELSE None

\* The number of elements of bag B, copies counted, that lie in the set S
RECURSIVE BagCountIn(_, _)
BagCountIn(B, S) ==
    IF S = {} THEN 0
    ELSE LET x == CHOOSE y \in S : TRUE
         IN  CopiesIn(x, B) + BagCountIn(B, S \ {x})

\* The number of edges of g, as held by its edge set, from `from` to `to`
EdgeCopies(g, from, to) ==
    BagCountIn(g.edges, {e \in EdgeSet(g) : e.from = from /\ e.to = to})

\* ModuleRecommender::new: one DiGraph node per graph node (the namespace
\* stands for its NodeIndex), one DiGraph edge per element of graph.edges
\* whose endpoints are both indexed, and the per-namespace metrics
ModuleRecommender_new(g) ==
    LET ids == DOMAIN g.nodes
        pairs == {p \in ids \X ids : EdgeCopies(g, p[1], p[2]) > 0}
    IN  [built |-> TRUE,
         namespace_graph |->
            [nodes |-> ids,
             edges |-> [p \in pairs |-> EdgeCopies(g, p[1], p[2])]],
         namespace_metrics |->
            [n \in ids |->
                [class_count |->
                    IF "files" \in DOMAIN g.nodes[n].metadata
                       /\ ParseUsize(g.nodes[n].metadata["files"]).some
                    THEN ParseUsize(g.nodes[n].metadata["files"]).val
                    ELSE 0,
                 incoming_edges |->
                    BagCountIn(g.edges, {e \in EdgeSet(g) : e.to = n /\ e.from \in ids}),
                 outgoing_edges |->
                    BagCountIn(g.edges, {e \in EdgeSet(g) : e.from = n /\ e.to \in ids})]]]

\* DiGraph::neighbors(idx), as a bag: one copy of the target per outgoing edge
neighbors(ng, idx) ==
    LET targets == {m \in ng.nodes : CopiesIn(<<idx, m>>, ng.edges) > 0}
    IN  [m \in targets |-> CopiesIn(<<idx, m>>, ng.edges)]

RECURSIVE ReachFrom(_, _)
ReachFrom(ng, S) ==
    LET next == S \cup UNION {BagToSet(neighbors(ng, n)) : n \in S}
    IN  IF next = S THEN S ELSE ReachFrom(ng, next)

\* The strongly connected components of the namespace graph
Components(ng) ==
    {{m \in ReachFrom(ng, {n}) : n \in ReachFrom(ng, {m})} : n \in ng.nodes}

\* petgraph::algo::tarjan_scc: the components in some postorder (reverse
\* topological order): no edge leads from an earlier component to a later one
tarjan_scc(ng) ==
    LET comps == Components(ng)
        k == Cardinality(comps)
    IN  {o \in [1..k -> comps] :
            /\ \A i, j \in 1..k : i # j => o[i] # o[j]
            /\ \A i, j \in 1..k : i < j =>
                 \A a \in o[i], b \in o[j] : CopiesIn(<<a, b>>, ng.edges) = 0}

\* A count of every edge that leaves a member of the component
count_edges_leaving(r, scc) ==
    BagCountIn(r.namespace_graph.edges,
               {p \in DOMAIN r.namespace_graph.edges : p[1] \in scc})

\* ModuleRecommender::count_edges_in_cycle
count_edges_in_cycle(r, scc) ==
    BagCountIn(r.namespace_graph.edges,
               {p \in DOMAIN r.namespace_graph.edges : p[1] \in scc /\ p[2] \in scc})

\* Severity bands with Low ending at 1 edge
severity_low_to_1(edge_count) ==
    IF edge_count <= 1 THEN "Low"
    ELSE IF edge_count <= 5 THEN "Medium"
    ELSE "High"

\* Severity bands with Low ending at 3 edges
severity_low_to_3(edge_count) ==
    IF edge_count <= 3 THEN "Low"
    ELSE IF edge_count <= 5 THEN "Medium"
    ELSE "High"

\* detect_cycles: match edge_count { 0..=2 => Low, 3..=5 => Medium, _ => High }
severity_of(edge_count) ==
    IF edge_count <= 2 THEN "Low"
    ELSE IF edge_count <= 5 THEN "Medium"
    ELSE "High"

\* A shape that calls components of up to three namespaces Simple
cycle_type_up_to_3(len) == IF len <= 3 THEN "Simple" ELSE "Complex"

\* detect_cycles: match namespaces.len() { 2 => Simple, _ => Complex }
cycle_type_of(len) == IF len = 2 THEN "Simple" ELSE "Complex"

\* A self-loop branch that takes its severity from the edge count
self_cycle_counted(r, idx) ==
    IF CopiesIn(idx, neighbors(r.namespace_graph, idx)) > 0
    THEN <<[namespaces |-> <<idx>>,
            cycle_type |-> "SelfCycle",
            severity |-> severity_of(count_edges_in_cycle(r, {idx}))]>>
    ELSE <<>>

\* A self-loop branch that reports every component of one node
self_cycle_always(r, idx) ==
    <<[namespaces |-> <<idx>>,
       cycle_type |-> "SelfCycle",
       severity |-> "Medium"]>>

\* detect_cycles, the branch scc.len() == 1: the cycles pushed for the node
self_cycle(r, idx) ==
    IF CopiesIn(idx, neighbors(r.namespace_graph, idx)) > 0
    THEN <<[namespaces |-> <<idx>>,
            cycle_type |-> "SelfCycle",
            severity |-> "Medium"]>>
    ELSE <<>>

\* detect_cycles, the branch scc.len() > 1: the cycle pushed for the component
multi_cycle(r, scc) ==
    LET namespaces == SortedSeq(scc)
    IN  <<[namespaces |-> namespaces,
           cycle_type |-> cycle_type_of(Len(namespaces)),
           severity |-> severity_of(count_edges_in_cycle(r, scc))]>>

\* ModuleRecommender::detect_cycles over the components tarjan_scc returned
RECURSIVE detect_cycles(_, _)
detect_cycles(r, sccs) ==
    IF sccs = <<>> THEN <<>>
    ELSE LET scc == Head(sccs)
             pushed == IF Cardinality(scc) > 1 THEN multi_cycle(r, scc)
                       ELSE IF Cardinality(scc) = 1
                       THEN self_cycle(r, CHOOSE n \in scc : TRUE)
                       ELSE <<>>
         IN  pushed \o detect_cycles(r, Tail(sccs))

---------------------------------------------------------------------------
(* ModuleRecommender: the module suggestions                               *)

RECURSIVE Gcd(_, _)
Gcd(a, b) == IF b = 0 THEN a ELSE Gcd(b, a % b)

\* The f64 quotient n as f64 / d as f64 of two counts, d > 0: the quotient in
\* lowest terms (equal f64 values exactly when the fractions are equal, for
\* counts far below 2^26)
F64Div(n, d) == [num |-> n \div Gcd(n, d), den |-> d \div Gcd(n, d)]

\* The f64 literal 1.0
F64One == [num |-> 1, den |-> 1]

\* f64::partial_cmp(a, b) == Less
F64Less(a, b) == a.num * b.den < b.num * a.den

\* The namespace of the global scope, which suggest_modules skips
GlobalNamespace == <<Sep>>

\* The text format!("{} .. (contains cycles)", top_level) appends: a space,
\* the warning sign and the words
CyclesSuffix == <<" ", "WARNING SIGN", " ", "(", "contains cycles", ")">>

\* ModuleRecommender::calculate_module_dependencies: (internal, external)
RECURSIVE calculate_module_dependencies(_, _, _)
calculate_module_dependencies(r, namespaces, namespace_set) ==
    IF namespaces = <<>> THEN <<0, 0>>
    ELSE LET nb == neighbors(r.namespace_graph, Head(namespaces))
             inside == BagCountIn(nb, (DOMAIN nb) \cap namespace_set)
             outside == BagCountIn(nb, (DOMAIN nb) \ namespace_set)
             rest == calculate_module_dependencies(r, Tail(namespaces), namespace_set)
         IN  <<inside + rest[1], outside + rest[2]>>

\* A cohesion that is 0.0 for a group without edges
cohesion_zero_when_empty(internal_deps, external_deps) ==
    IF internal_deps + external_deps > 0
    THEN F64Div(internal_deps, internal_deps + external_deps)
    ELSE F64Div(0, 1)

\* suggest_modules: let cohesion_score = if internal_deps + external_deps > 0 ..
cohesion_score(internal_deps, external_deps) ==
    IF internal_deps + external_deps > 0
    THEN F64Div(internal_deps, internal_deps + external_deps)
    ELSE F64One

\* namespace_groups.entry(top_level).or_insert_with(Vec::new).push(namespace)
group_push(groups, top_level, namespace) ==
    IF \E i \in 1..Len(groups) : groups[i].top_level = top_level
    THEN [i \in 1..Len(groups) |->
            IF groups[i].top_level = top_level
            THEN [groups[i] EXCEPT !.namespaces = Append(@, namespace)]
            ELSE groups[i]]
    ELSE Append(groups, [top_level |-> top_level, namespaces |-> <<namespace>>])

\* A grouping loop that does not skip the global namespace
RECURSIVE namespace_groups_with_global(_, _)
namespace_groups_with_global(groups, order) ==
    IF order = <<>> THEN groups
    ELSE namespace_groups_with_global(
            group_push(groups, FirstSegment(Head(order)), Head(order)), Tail(order))

\* suggest_modules: the loop over namespace_metrics, visited in the order
\* `order`, that fills the IndexMap namespace_groups
RECURSIVE namespace_groups(_, _)
namespace_groups(groups, order) ==
    IF order = <<>> THEN groups
    ELSE LET namespace == Head(order)
         IN  IF namespace = GlobalNamespace
             THEN namespace_groups(groups, Tail(order))
             ELSE namespace_groups(group_push(groups, FirstSegment(namespace), namespace),
                                   Tail(order))

RECURSIVE SumClassCount(_, _)
SumClassCount(r, namespaces) ==
    IF namespaces = <<>> THEN 0
    ELSE r.namespace_metrics[Head(namespaces)].class_count
         + SumClassCount(r, Tail(namespaces))

\* suggest_modules: the ModuleSuggestion pushed for one group
module_suggestion(r, cycle_namespaces, group) ==
    LET namespaces == group.namespaces
        members == {namespaces[i] : i \in 1..Len(namespaces)}
        has_cycles == members \cap cycle_namespaces # {}
        deps == calculate_module_dependencies(r, namespaces, members)
    IN  [name |-> IF has_cycles THEN group.top_level \o CyclesSuffix
                  ELSE group.top_level,
         namespaces |-> namespaces,
         class_count |-> SumClassCount(r, namespaces),
         internal_dependencies |-> deps[1],
         external_dependencies |-> deps[2],
         cohesion_score |-> cohesion_score(deps[1], deps[2])]

\* An insertion that puts x in front of the elements equal to it
RECURSIVE insert_sorted_before_ties(_, _)
insert_sorted_before_ties(sorted, x) ==
    IF sorted = <<>> THEN <<x>>
    ELSE IF ~F64Less(x.cohesion_score, Head(sorted).cohesion_score)
         THEN <<x>> \o sorted
         ELSE <<Head(sorted)>> \o insert_sorted_before_ties(Tail(sorted), x)

\* Vec::sort_by(|a, b| b.cohesion_score.partial_cmp(&a.cohesion_score)): a
\* stable sort, the higher cohesion first. insert_sorted puts x behind every
\* element that is not lower than x.
RECURSIVE insert_sorted(_, _)
insert_sorted(sorted, x) ==
    IF sorted = <<>> THEN <<x>>
    ELSE IF F64Less(Head(sorted).cohesion_score, x.cohesion_score)
         THEN <<x>> \o sorted
         ELSE <<Head(sorted)>> \o insert_sorted(Tail(sorted), x)

RECURSIVE sort_by_cohesion(_, _)
sort_by_cohesion(sorted, todo) ==
    IF todo = <<>> THEN sorted
    ELSE sort_by_cohesion(insert_sorted(sorted, Head(todo)), Tail(todo))

\* The suggestions in the order of their groups, before the sort
discovered_suggestions(r, cycle_list, order) ==
    LET cycle_namespaces ==
            UNION {{cycle_list[i].namespaces[k] : k \in 1..Len(cycle_list[i].namespaces)} :
                   i \in 1..Len(cycle_list)}
        groups == namespace_groups(<<>>, order)
    IN  [i \in 1..Len(groups) |-> module_suggestion(r, cycle_namespaces, groups[i])]

\* ModuleRecommender::suggest_modules, with the components tarjan_scc returns
\* and the order in which the HashMap namespace_metrics is iterated
suggest_modules(r, sccs, order) ==
    sort_by_cohesion(<<>>, discovered_suggestions(r, detect_cycles(r, sccs), order))

---------------------------------------------------------------------------
(* Bounds and input sets                                                   *)

\* The longest identifier given to the resolver, in characters
MaxNameLen == 3

\* The most edges the graph of SpecGraph holds
MaxEdges == 3

Letters == {"A", "B"}

\* Identifiers as the parser yields them: one-letter segments joined by the
\* separator, with an optional leading separator (Local, Qualified,
\* FullyQualified)
Identifiers ==
    {s \in UNION {[1..n -> Letters \cup {Sep}] : n \in 1..MaxNameLen} :
        /\ s[Len(s)] # Sep
        /\ \A i \in 1..(Len(s) - 1) : (s[i] = Sep) # (s[i + 1] = Sep)}

LocalNames == {s \in Identifiers : \A i \in 1..Len(s) : s[i] # Sep}

RelativeNames == {s \in Identifiers : ~StartsWithSep(s)}

\* namespace: Option<&str>; a namespace block without a name gives Some("")
Namespaces == {None, Some(<<>>)} \cup {Some(n) : n \in RelativeNames}

NoCall == [called |-> FALSE]

NoOp == [kind |-> "none"]

NoRecommender == [built |-> FALSE]

NoCycles == [done |-> FALSE]

NoModules == [done |-> FALSE]

NoOutput == [written |-> FALSE]

resolverVars == <<imports, res>>

graphVars == <<graph, op, pre, inserted, output>>

writerVars == <<inserted, output>>

recommenderVars == <<rec, cycles, modules>>

analyzerVars == <<analyzer, cur, scopes, steps, visit, sources, pos>>

runVars == <<sources, pos>>

NoDecl == [kind |-> "none"]

\* The analyzer part of the state before main creates the analyzer's input
AnalyzerIdle ==
    /\ analyzer = ClassDependencyAnalyzer_new
    /\ cur = None
    /\ scopes = <<>>
    /\ steps = 0
    /\ visit = NoDecl
    /\ sources = <<>>
    /\ pos = 0

---------------------------------------------------------------------------
(* SpecResolver: use declarations build an import table, names are resolved *)

InitResolver ==
    /\ imports = EmptyMap
    /\ res = NoCall
    /\ graph = DependencyGraph_new
    /\ op = NoOp
    /\ pre = DependencyGraph_new
    /\ inserted = <<>>
    /\ output = NoOutput
    /\ rec = NoRecommender
    /\ cycles = NoCycles
    /\ modules = NoModules
    /\ AnalyzerIdle

\* ImportContext::new: a scope begins
NewScope ==
    /\ imports # EmptyMap
    /\ imports' = EmptyMap
    /\ res' = NoCall
    /\ UNCHANGED <<graphVars, recommenderVars, analyzerVars>>

\* process_use_statement, one item: `use fq;` or `use fq as alias;`
UseItem ==
    \E fq \in Identifiers, alias \in {None} \cup {Some(a) : a \in LocalNames} :
        /\ imports' = add_import(imports, fq, alias)
        /\ res' = NoCall
        /\ UNCHANGED <<graphVars, recommenderVars, analyzerVars>>

\* A call of resolve_class_name with the table of the current scope
Resolve ==
    \E name \in Identifiers, namespace \in Namespaces :
        /\ res' = [called |-> TRUE, name |-> name, namespace |-> namespace,
                   out |-> resolve_class_name(name, namespace, imports)]
        /\ UNCHANGED <<imports, graphVars, recommenderVars, analyzerVars>>

NextResolver == NewScope \/ UseItem \/ Resolve

SpecResolver == InitResolver /\ [][NextResolver]_vars

---------------------------------------------------------------------------
(* SpecGraph: any sequence of add_node and add_edge on one DependencyGraph *)

GraphIds == {<<"A">>, <<"B">>}

NodeLabels == {<<"L">>}

NodeMetadata == {EmptyMap, MapInsert(EmptyMap, "type", "internal")}

\* The nodes a caller passes to add_node
InputNodes ==
    {[id |-> id, label |-> l, metadata |-> m] :
        id \in GraphIds, l \in NodeLabels, m \in NodeMetadata}
    \cup {Node_new(id, id) : id \in GraphIds}

\* The edges a caller passes to add_edge: Edge::new, with a label, with metadata
InputEdges ==
    UNION {{Edge_new(a, b),
            Edge_with_label(Edge_new(a, b), "uses"),
            Edge_with_metadata(Edge_new(a, b), "kind", "extends")} :
           a \in GraphIds, b \in GraphIds}

InitGraph ==
    /\ imports = EmptyMap
    /\ res = NoCall
    /\ graph = DependencyGraph_new
    /\ op = NoOp
    /\ pre = DependencyGraph_new
    /\ inserted = <<>>
    /\ output = NoOutput
    /\ rec = NoRecommender
    /\ cycles = NoCycles
    /\ modules = NoModules
    /\ AnalyzerIdle

AddNode ==
    \E node \in InputNodes :
        /\ graph' = add_node(graph, node)
        /\ op' = [kind |-> "add_node", node |-> node]
        /\ pre' = graph
        /\ UNCHANGED <<resolverVars, writerVars, recommenderVars, analyzerVars>>

AddEdge ==
    \E edge \in InputEdges :
        /\ BagCardinality(graph.edges) < MaxEdges
        /\ graph' = add_edge(graph, edge)
        /\ op' = [kind |-> "add_edge", edge |-> edge]
        /\ pre' = graph
        /\ UNCHANGED <<resolverVars, writerVars, recommenderVars, analyzerVars>>

NextGraph == AddNode \/ AddEdge

SpecGraph == InitGraph /\ [][NextGraph]_vars

---------------------------------------------------------------------------
(* SpecCycles: a recommender is built from a namespace-level graph and     *)
(* detect_cycles is called on it                                           *)

NsNames == {<<"A">>, <<"B">>, <<"C">>}

\* The namespace-level graphs given to ModuleRecommender::new: any set of
\* namespaces, and per ordered pair no edge, one edge, or a second edge with
\* a label beside it
NsGraph(ids, mult) ==
    [nodes |-> [n \in ids |-> Node_new(n, n)],
     edges |-> SetToBag(
        {Edge_new(p[1], p[2]) : p \in {q \in ids \X ids : mult[q] >= 1}}
        \cup {Edge_with_label(Edge_new(p[1], p[2]), "uses") :
                p \in {q \in ids \X ids : mult[q] >= 2}})]

InitCycles ==
    /\ imports = EmptyMap
    /\ res = NoCall
    /\ \E ids \in SUBSET NsNames :
         \E mult \in [ids \X ids -> {0, 1, 2}] :
            graph = NsGraph(ids, mult)
    /\ op = NoOp
    /\ pre = DependencyGraph_new
    /\ inserted = <<>>
    /\ output = NoOutput
    /\ rec = NoRecommender
    /\ cycles = NoCycles
    /\ modules = NoModules
    /\ AnalyzerIdle

RecommenderNew ==
    /\ ~rec.built
    /\ rec' = ModuleRecommender_new(graph)
    /\ UNCHANGED <<resolverVars, graphVars, cycles, modules, analyzerVars>>

DetectCycles ==
    /\ rec.built
    /\ ~cycles.done
    /\ \E sccs \in tarjan_scc(rec.namespace_graph) :
         cycles' = [done |-> TRUE, list |-> detect_cycles(rec, sccs)]
    /\ UNCHANGED <<resolverVars, graphVars, rec, modules, analyzerVars>>

NextCycles == RecommenderNew \/ DetectCycles

SpecCycles == InitCycles /\ [][NextCycles]_vars

---------------------------------------------------------------------------
(* SpecModules: a recommender is built from a namespace-level graph and    *)
(* suggest_modules is called on it                                         *)

\* The most (from, to) pairs joined by an edge in the graphs of SpecModules
MaxModuleEdges == 2

\* The namespaces A, A\B, B and the global namespace
ModuleNs == {<<"A">>, <<"A", "\\", "B">>, <<"B">>, GlobalNamespace}

\* The "files" metadata of the namespace nodes: a count, or text that is not
\* a count, or none
ModuleNode(n) ==
    CASE n = <<"A">> -> Node_with_metadata(Node_new(n, n), "files", <<"2">>)
      [] n = <<"A", "\\", "B">> -> Node_with_metadata(Node_new(n, n), "files", <<"1">>)
      [] n = <<"B">> -> Node_with_metadata(Node_new(n, n), "files", <<"x">>)
      [] OTHER -> Node_new(n, n)

\* The graph with the namespaces ids, an edge per pair of `single` and a
\* second, labelled, edge per pair of `double` (at most one pair)
ModuleGraph(ids, single, double) ==
    [nodes |-> [n \in ids |-> ModuleNode(n)],
     edges |-> SetToBag({Edge_new(p[1], p[2]) : p \in single}
                        \cup {Edge_with_label(Edge_new(p[1], p[2]), "uses") : p \in double})]

\* The orders in which a HashMap with the keys S is iterated
Orders(S) ==
    {o \in [1..Cardinality(S) -> S] : \A i, j \in 1..Cardinality(S) : i # j => o[i] # o[j]}

InitModules ==
    /\ imports = EmptyMap
    /\ res = NoCall
    /\ \E ids \in SUBSET ModuleNs :
         \E single \in SUBSET (ids \X ids) :
            /\ Cardinality(single) <= MaxModuleEdges
            /\ \E double \in {{}} \cup {{p} : p \in single} :
                 graph = ModuleGraph(ids, single, double)
    /\ op = NoOp
    /\ pre = DependencyGraph_new
    /\ inserted = <<>>
    /\ output = NoOutput
    /\ rec = NoRecommender
    /\ cycles = NoCycles
    /\ modules = NoModules
    /\ AnalyzerIdle

\* suggest_modules reads from detect_cycles only the set of the namespaces in
\* cycles, which is the same for every order of the components: one order is
\* taken. The iteration order of namespace_metrics is any order.
SuggestModules ==
    /\ rec.built
    /\ ~modules.done
    /\ LET sccs == CHOOSE o \in tarjan_scc(rec.namespace_graph) : TRUE
       IN  \E order \in Orders(DOMAIN rec.namespace_metrics) :
             modules' = [done |-> TRUE,
                         order |-> order,
                         list |-> suggest_modules(rec, sccs, order)]
    /\ UNCHANGED <<resolverVars, graphVars, rec, cycles, analyzerVars>>

NextModules == RecommenderNew \/ SuggestModules

SpecModules == InitModules /\ [][NextModules]_vars

---------------------------------------------------------------------------
(* CsvWriter, and SpecCsv: edges are added to a graph and the graph is     *)
(* written as CSV                                                          *)

\* CsvWriter::new
CsvWriter_new == [include_header |-> TRUE]

\* CsvWriter::without_header
without_header(w) == [w EXCEPT !.include_header = FALSE]

\* writeln!(writer, "from,to")
CsvHeader == <<"f", "r", "o", "m", ",", "t", "o", "\n">>

\* writeln!(writer, "{},{}", edge.from, edge.to)
CsvRow(edge) == edge.from \o <<",">> \o edge.to \o <<"\n">>

\* CsvWriter::write: the lines written, with the edges of the HashSet
\* graph.edges visited in the order `order`
CsvWriter_write(w, g, order) ==
    (IF w.include_header THEN <<CsvHeader>> ELSE <<>>)
    \o [i \in 1..Len(order) |-> CsvRow(order[i])]

\* The most calls of add_edge in a run of SpecCsv
MaxCsvEdges == 3

\* Edge::new("A", "B"), ("A", "C"), ("B", "C"), and ("A", "B") with a label
CsvEdges ==
    {Edge_new(<<"A">>, <<"B">>), Edge_new(<<"A">>, <<"C">>), Edge_new(<<"B">>, <<"C">>),
     Edge_with_label(Edge_new(<<"A">>, <<"B">>), "uses")}

InitCsv ==
    /\ imports = EmptyMap
    /\ res = NoCall
    /\ graph = DependencyGraph_new
    /\ op = NoOp
    /\ pre = DependencyGraph_new
    /\ inserted = <<>>
    /\ output = NoOutput
    /\ rec = NoRecommender
    /\ cycles = NoCycles
    /\ modules = NoModules
    /\ AnalyzerIdle

CsvAddEdge ==
    \E edge \in CsvEdges :
        /\ ~output.written
        /\ Len(inserted) < MaxCsvEdges
        /\ graph' = add_edge(graph, edge)
        /\ inserted' = Append(inserted, edge)
        /\ op' = [kind |-> "add_edge", edge |-> edge]
        /\ pre' = graph
        /\ UNCHANGED <<resolverVars, output, recommenderVars, analyzerVars>>

\* CsvWriter::write on a writer with or without the header; the HashSet is
\* iterated in any order
CsvWrite ==
    \E w \in {CsvWriter_new, without_header(CsvWriter_new)},
       order \in Orders(EdgeSet(graph)) :
        /\ ~output.written
        /\ output' = [written |-> TRUE,
                      include_header |-> w.include_header,
                      lines |-> CsvWriter_write(w, graph, order)]
        /\ UNCHANGED <<resolverVars, graph, op, pre, inserted, recommenderVars, analyzerVars>>

NextCsv == CsvAddEdge \/ CsvWrite

SpecCsv == InitCsv /\ [][NextCsv]_vars

---------------------------------------------------------------------------
(* The resolver's contract                                                 *)

\* C1: a bare name (no leading separator) that has an entry n -> F in the
\* import table resolves to F, whatever the enclosing namespace is.
C1_ImportWins ==
    (res.called /\ ~StartsWithSep(res.name) /\ res.name \in DOMAIN imports)
        => res.out = imports[res.name]

\* An imported bare name was resolved inside a named namespace, and the result
\* is not the namespace-relative name
C1_Witness ==
    /\ res.called
    /\ ~StartsWithSep(res.name)
    /\ res.name \in DOMAIN imports
    /\ res.namespace.some
    /\ res.namespace.val # <<>>
    /\ res.out # res.namespace.val \o <<Sep>> \o res.name

\* C2: a name that begins with the separator resolves to the name with exactly
\* that leading separator stripped, for every namespace and import table.
C2_FullyQualified ==
    (res.called /\ StartsWithSep(res.name))
        => /\ <<Sep>> \o res.out = res.name
           /\ Len(res.out) = Len(res.name) - 1

\* A \X was resolved inside a namespace while the table has an entry for X
C2_Witness ==
    /\ res.called
    /\ StartsWithSep(res.name)
    /\ SubSeq(res.name, 2, Len(res.name)) \in DOMAIN imports
    /\ imports[SubSeq(res.name, 2, Len(res.name))] # SubSeq(res.name, 2, Len(res.name))
    /\ res.namespace.some

\* C3: a name without a leading separator and without an import entry resolves
\* to namespace + separator + name when a namespace is present and to the name
\* itself when there is none; a multi-segment name gets no prefix matching.
C3_NamespaceRelative ==
    (res.called /\ ~StartsWithSep(res.name) /\ res.name \notin DOMAIN imports)
        => res.out = IF res.namespace.some
                     THEN res.namespace.val \o <<Sep>> \o res.name
                     ELSE res.name

\* A multi-segment name whose first segment is imported was resolved inside a
\* namespace
C3_Witness ==
    /\ res.called
    /\ ~StartsWithSep(res.name)
    /\ res.name \notin DOMAIN imports
    /\ FirstSegment(res.name) # res.name
    /\ FirstSegment(res.name) \in DOMAIN imports
    /\ res.namespace.some

---------------------------------------------------------------------------
(* The dependency graph's contract                                         *)

\* C5: after add_edge both endpoints are nodes, also when they were absent
\* before, and the graph holds exactly one copy of the added edge: a second
\* add_edge with identical arguments leaves the edge set as it was.
C5_AddEdge ==
    op.kind = "add_edge" =>
        /\ op.edge.from \in DOMAIN graph.nodes
        /\ op.edge.to \in DOMAIN graph.nodes
        /\ CopiesIn(op.edge, graph.edges) = 1
        /\ BagIn(op.edge, pre.edges) => graph.edges = pre.edges

\* add_edge was called with an edge an earlier identical call had inserted
C5_Witness ==
    /\ op.kind = "add_edge"
    /\ BagIn(op.edge, pre.edges)
    /\ CopiesIn(op.edge, graph.edges) = 1

\* C6: the edge set is keyed by (from, to): at most one edge per (from, to)
\* pair, also when the added edges differ in label or metadata.
C6_KeyedByEndpoints ==
    \A e1, e2 \in EdgeSet(graph) :
        (e1.from = e2.from /\ e1.to = e2.to) => e1 = e2

\* C7: both endpoints of every edge are nodes; a node add_edge creates has
\* id = label = the endpoint and no metadata; add_edge leaves every node that
\* existed before it as it was.
C7_EndpointsExist ==
    /\ \A e \in EdgeSet(graph) :
         e.from \in DOMAIN graph.nodes /\ e.to \in DOMAIN graph.nodes
    /\ op.kind = "add_edge" =>
         /\ \A id \in DOMAIN pre.nodes :
              id \in DOMAIN graph.nodes /\ graph.nodes[id] = pre.nodes[id]
         /\ \A id \in (DOMAIN graph.nodes) \ (DOMAIN pre.nodes) :
              /\ id \in {op.edge.from, op.edge.to}
              /\ graph.nodes[id].id = id
              /\ graph.nodes[id].label = id
              /\ DOMAIN graph.nodes[id].metadata = {}

\* add_edge found one endpoint as a node with a label and metadata of its
\* own and had to create the other
C7_Witness ==
    /\ op.kind = "add_edge"
    /\ op.edge.from \in DOMAIN pre.nodes
    /\ pre.nodes[op.edge.from].label # op.edge.from
    /\ DOMAIN pre.nodes[op.edge.from].metadata # {}
    /\ op.edge.to \notin DOMAIN pre.nodes
    /\ op.edge.to \in DOMAIN graph.nodes

---------------------------------------------------------------------------
(* The cycle detector's contract                                           *)

\* b is reached from a by a path of one or more edges of g
RECURSIVE PathSet(_, _)
PathSet(g, S) ==
    LET next == S \cup {e.to : e \in {x \in EdgeSet(g) : x.from \in S}}
    IN  IF next = S THEN S ELSE PathSet(g, next)

Reaches(g, a, b) ==
    b \in PathSet(g, {e.to : e \in {x \in EdgeSet(g) : x.from = a}})

\* The cycles of the result that list namespace n
CyclesWith(n) ==
    {i \in 1..Len(cycles.list) :
        \E k \in 1..Len(cycles.list[i].namespaces) : cycles.list[i].namespaces[k] = n}

\* n has an edge to itself and shares a cycle with no other namespace
LoneSelfLoop(n) ==
    /\ \E e \in EdgeSet(graph) : e.from = n /\ e.to = n
    /\ \A m \in (DOMAIN graph.nodes) \ {n} :
         ~(Reaches(graph, n, m) /\ Reaches(graph, m, n))

\* C8: a namespace that is a strongly connected component of size 1 and has an
\* edge to itself is reported as exactly one cycle, SelfCycle and Medium,
\* whatever other edges it has.
C8_SelfCycle ==
    cycles.done =>
        \A n \in DOMAIN graph.nodes :
            LoneSelfLoop(n) =>
                /\ Cardinality(CyclesWith(n)) = 1
                /\ \A i \in CyclesWith(n) :
                     cycles.list[i] = [namespaces |-> <<n>>,
                                       cycle_type |-> "SelfCycle",
                                       severity |-> "Medium"]

\* A lone self-loop namespace with edges to and from other namespaces was
\* reported
C8_Witness ==
    /\ cycles.done
    /\ \E n \in DOMAIN graph.nodes :
         /\ LoneSelfLoop(n)
         /\ \E e \in EdgeSet(graph) : e.from = n /\ e.to # n
         /\ \E e \in EdgeSet(graph) : e.from # n /\ e.to = n
         /\ CyclesWith(n) # {}

\* The namespace graph with exactly the nodes A, B and the edges A->B, B->A
TwoCycleGraph ==
    /\ DOMAIN graph.nodes = {<<"A">>, <<"B">>}
    /\ graph.edges = SetToBag({Edge_new(<<"A">>, <<"B">>), Edge_new(<<"B">>, <<"A">>)})

\* C9: for the nodes A, B and the edges A->B, B->A detect_cycles returns
\* exactly one cycle: Simple, members <<A, B>> in sorted order, severity Low.
C9_TwoCycle ==
    (cycles.done /\ TwoCycleGraph) =>
        cycles.list = <<[namespaces |-> <<(<<"A">>), (<<"B">>)>>,
                         cycle_type |-> "Simple",
                         severity |-> "Low"]>>

C9_Witness == cycles.done /\ TwoCycleGraph /\ Len(cycles.list) = 1

\* The namespace graph that is the ring A->B, B->C, C->A
RingGraph ==
    /\ DOMAIN graph.nodes = {<<"A">>, <<"B">>, <<"C">>}
    /\ graph.edges = SetToBag({Edge_new(<<"A">>, <<"B">>),
                               Edge_new(<<"B">>, <<"C">>),
                               Edge_new(<<"C">>, <<"A">>)})

\* C10: for the 3-node ring detect_cycles returns exactly one cycle: Complex,
\* members A, B and C, severity Medium (3 intra-component edges).
C10_Ring ==
    (cycles.done /\ RingGraph) =>
        cycles.list = <<[namespaces |-> <<(<<"A">>), (<<"B">>), (<<"C">>)>>,
                         cycle_type |-> "Complex",
                         severity |-> "Medium"]>>

C10_Witness ==
    /\ cycles.done
    /\ RingGraph
    /\ Len(cycles.list) = 1
    /\ count_edges_in_cycle(rec, DOMAIN graph.nodes) = 3

---------------------------------------------------------------------------
(* The analysis run: main analyzes files one after the other, the visitor  *)
(* walks the statements of each, build_graph assembles the graph           *)

\* A scope of the visitor: the namespace and import table statements see
Scope(namespace, imp) == [namespace |-> namespace, imports |-> imp]

CurrentScope == scopes[Len(scopes)]

InitAnalysis ==
    /\ imports = EmptyMap
    /\ res = NoCall
    /\ graph = DependencyGraph_new
    /\ op = NoOp
    /\ pre = DependencyGraph_new
    /\ inserted = <<>>
    /\ output = NoOutput
    /\ rec = NoRecommender
    /\ cycles = NoCycles
    /\ modules = NoModules
    /\ AnalyzerIdle

\* main: read_file succeeded; analyze parses the file and visit_program
\* starts with namespace None and ImportContext::new. main analyzes every
\* file before it builds the graph.
BeginFile(files) ==
    \E file_path \in files :
        /\ cur = None
        /\ op = NoOp
        /\ cur' = Some(file_path)
        /\ scopes' = <<Scope(None, EmptyMap)>>
        /\ visit' = [kind |-> "file"]
        /\ UNCHANGED <<resolverVars, graphVars, recommenderVars, analyzer, steps, runVars>>

\* visit_statement, Statement::Use
VisitUse(uses) ==
    \E items \in uses :
        /\ cur # None
        /\ scopes' = [scopes EXCEPT ![Len(scopes)].imports =
                        process_use_statement(CurrentScope.imports, items)]
        /\ visit' = [kind |-> "use"]
        /\ UNCHANGED <<resolverVars, graphVars, recommenderVars, analyzer, cur, steps, runVars>>

\* visit_statement, Statement::Namespace: the block's statements are visited
\* with Some(ns_name) and an ImportContext of their own. The files analyzed
\* hold namespace blocks at the top level only.
EnterNamespace(names) ==
    \E name \in names :
        /\ cur # None
        /\ Len(scopes) = 1
        /\ scopes' = Append(scopes, Scope(Some(extract_namespace_name(name)), EmptyMap))
        /\ visit' = [kind |-> "namespace"]
        /\ UNCHANGED <<resolverVars, graphVars, recommenderVars, analyzer, cur, steps, runVars>>

\* visit_statement, Statement::Namespace: the loop over the block's
\* statements ends and the enclosing scope is current again
ExitNamespace ==
    /\ cur # None
    /\ Len(scopes) > 1
    /\ scopes' = SubSeq(scopes, 1, Len(scopes) - 1)
    /\ visit' = [kind |-> "end_namespace"]
    /\ UNCHANGED <<resolverVars, graphVars, recommenderVars, analyzer, cur, steps, runVars>>

\* visit_statement, Statement::Class / Interface / Trait / Enum
VisitDeclaration(decls, max) ==
    \E decl \in decls :
        /\ cur # None
        /\ steps < max
        /\ analyzer' = visit_declaration(analyzer, decl, cur.val,
                                         CurrentScope.namespace, CurrentScope.imports)
        /\ visit' =
             LET fqn == get_fqn(decl.name, CurrentScope.namespace)
             IN  [kind |-> "decl",
                  decl |-> decl,
                  file |-> cur.val,
                  namespace |-> CurrentScope.namespace,
                  imports |-> CurrentScope.imports,
                  fqn |-> fqn,
                  before |-> IF fqn \in DOMAIN analyzer.dependencies
                             THEN analyzer.dependencies[fqn] ELSE {}]
        /\ steps' = steps + 1
        /\ UNCHANGED <<resolverVars, graphVars, recommenderVars, cur, scopes, runVars>>

\* visit_program returns: every block of the file is closed
EndFile ==
    /\ cur # None
    /\ Len(scopes) = 1
    /\ cur' = None
    /\ scopes' = <<>>
    /\ visit' = [kind |-> "end_file"]
    /\ UNCHANGED <<resolverVars, graphVars, recommenderVars, analyzer, steps, runVars>>

\* GraphAnalyzer::build_graph
BuildGraph ==
    \E include_external \in BOOLEAN :
        /\ cur = None
        /\ graph' = build_graph(analyzer, include_external)
        /\ op' = [kind |-> "build_graph", include_external |-> include_external]
        /\ UNCHANGED <<resolverVars, recommenderVars, analyzerVars, pre, writerVars>>

---------------------------------------------------------------------------
(* Inputs of the analysis                                                  *)

\* The most declarations visited in a run of SpecVisitor
MaxVisits == 1

\* The most declarations visited in a run of Spec
MaxDecls == 3

Identifier(name) == [kind |-> "Identifier", name |-> name]

Nullable(hint) == [kind |-> "Nullable", hint |-> hint]

Parenthesized(hint) == [kind |-> "Parenthesized", hint |-> hint]

Union(left, right) == [kind |-> "Union", left |-> left, right |-> right]

Intersection(left, right) == [kind |-> "Intersection", left |-> left, right |-> right]

OtherHint == [kind |-> "Other"]

TraitUse(trait_names) == [kind |-> "TraitUse", trait_names |-> trait_names]

Property(hint) == [kind |-> "Property", hint |-> hint]

Method(return_type_hint, parameters) ==
    [kind |-> "Method", return_type_hint |-> return_type_hint, parameters |-> parameters]

Decl(kind, name, extends, implements, backing, members) ==
    [kind |-> kind, name |-> name, extends |-> extends, implements |-> implements,
     backing |-> backing, members |-> members]

\* The names references are spelled with: a class, a fully qualified class,
\* a built-in type name and a built-in type name in another case
RefNames == {<<"B">>, <<"\\", "B">>, <<"i","n","t">>, <<"S","e","l","f">>}

HintInputs ==
    {Identifier(r) : r \in RefNames}
    \cup {Nullable(Union(Identifier(<<"B">>), Identifier(<<"i","n","t">>))),
          Parenthesized(Intersection(Identifier(<<"\\", "B">>), Identifier(<<"S","e","l","f">>))),
          OtherHint}

MemberInputs ==
    {TraitUse(<<r>>) : r \in RefNames}
    \cup {Property(Some(h)) : h \in HintInputs}
    \cup {Method(Some(h), <<>>) : h \in HintInputs}
    \cup {Method(None, <<None, Some(h)>>) : h \in HintInputs}

\* `public B $b; function f(?(B|(\B&C)) $x): B|int` and `use B, C;`: the
\* type B named by three hints, one of them three compositions deep, and by
\* a trait use
RepeatedHintMembers ==
    <<Property(Some(Identifier(<<"B">>))),
      Method(Some(Union(Identifier(<<"B">>), Identifier(<<"i","n","t">>))),
             <<Some(Nullable(Parenthesized(
                    Union(Identifier(<<"B">>),
                          Parenthesized(Intersection(Identifier(<<"\\", "B">>),
                                                     Identifier(<<"C">>)))))))>>),
      TraitUse(<<(<<"B">>), (<<"C">>)>>)>>

\* The declarations of SpecVisitor: at most one reference position is filled,
\* or the members are RepeatedHintMembers
VisitorDecls ==
    LET n == <<"A">>
    IN  {Decl(k, n, <<>>, <<>>, None, <<>>) : k \in {"Class", "Interface", "Trait", "Enum"}}
        \cup {Decl(k, n, <<r>>, <<>>, None, <<>>) : k \in {"Class", "Interface"}, r \in RefNames}
        \cup {Decl(k, n, <<>>, <<r>>, None, <<>>) : k \in {"Class", "Enum"}, r \in RefNames}
        \cup {Decl("Enum", n, <<>>, <<>>, Some(h), <<>>) : h \in HintInputs}
        \cup {Decl(k, n, <<>>, <<>>, None, <<m>>) :
                k \in {"Class", "Interface", "Trait", "Enum"}, m \in MemberInputs}
        \cup {Decl(k, n, <<>>, <<>>, None, RepeatedHintMembers) : k \in {"Class", "Trait"}}

\* `use X\B, X as int;`
VisitorUses ==
    {<<[name |-> <<"X", "\\", "B">>, alias |-> None],
       [name |-> <<"X">>, alias |-> Some(<<"i","n","t">>)]>>}

\* `namespace N { }`, `namespace { }`
VisitorNamespaces == {Some(<<"N">>), None}

VisitorFiles == {"a.php"}

VisitorBegin == BeginFile(VisitorFiles)

VisitorUse == VisitUse(VisitorUses)

VisitorEnter == EnterNamespace(VisitorNamespaces)

VisitorDeclaration == VisitDeclaration(VisitorDecls, MaxVisits)

NextVisitor ==
    \/ VisitorBegin
    \/ VisitorUse
    \/ VisitorEnter
    \/ ExitNamespace
    \/ VisitorDeclaration
    \/ EndFile
    \/ BuildGraph

SpecVisitor == InitAnalysis /\ [][NextVisitor]_vars

\* The declarations of Spec: `class A { public B $b; }`, `class A { public
\* int $x; }` (the parser's own variant for int), `class A extends B {}`,
\* `class B {}`, `interface B {}`
AnalysisDecls ==
    {Decl("Class", <<"A">>, <<>>, <<>>, None, <<Property(Some(Identifier(<<"B">>)))>>),
     Decl("Class", <<"A">>, <<>>, <<>>, None, <<Property(Some(OtherHint))>>),
     Decl("Class", <<"A">>, <<(<<"B">>)>>, <<>>, None, <<>>),
     Decl("Class", <<"B">>, <<>>, <<>>, None, <<>>),
     Decl("Interface", <<"B">>, <<>>, <<>>, None, <<>>)}

\* `use Lib\B;`
AnalysisUses == {<<[name |-> <<"L","i","b","\\","B">>, alias |-> None]>>}

\* `namespace App;`
AnalysisNamespaces == {Some(<<"A","p","p">>)}

AnalysisFiles == {"a.php", "b.php"}

AnalysisBegin == BeginFile(AnalysisFiles)

AnalysisUse == VisitUse(AnalysisUses)

AnalysisEnter == EnterNamespace(AnalysisNamespaces)

AnalysisDeclaration == VisitDeclaration(AnalysisDecls, MaxDecls)

Next ==
    \/ AnalysisBegin
    \/ AnalysisUse
    \/ AnalysisEnter
    \/ ExitNamespace
    \/ AnalysisDeclaration
    \/ EndFile
    \/ BuildGraph

Spec == InitAnalysis /\ [][Next]_vars

---------------------------------------------------------------------------
(* SpecRun: main's analysis of a list of discovered files, file by file,   *)
(* and the graph built at the end                                          *)

\* The most files discovered in a run of SpecRun
MaxFiles == 3

Import(name, alias) == [name |-> name, alias |-> alias]

Use(items) == [kind |-> "Use", items |-> items]

Namespace(name, statements) ==
    [kind |-> "Namespace", name |-> name, statements |-> statements]

App == <<"A", "p", "p">>

LibB == <<"L", "i", "b", "\\", "B">>

AppA == <<"A", "p", "p", "\\", "A">>

AppB == <<"A", "p", "p", "\\", "B">>

AppC == <<"A", "p", "p", "\\", "C">>

Class(name, extends, members) == Decl("Class", name, extends, <<>>, None, members)

\* `namespace App; class A { public B $b; }`
FileA == <<Namespace(Some(App),
            <<Class(<<"A">>, <<>>, <<Property(Some(Identifier(<<"B">>)))>>)>>)>>

\* `namespace App; class B {}`
FileB == <<Namespace(Some(App), <<Class(<<"B">>, <<>>, <<>>)>>)>>

\* `namespace App; class A { public int $x; }`: the parser has a variant of
\* its own for the hint int
FileAInt == <<Namespace(Some(App),
               <<Class(<<"A">>, <<>>, <<Property(Some(OtherHint))>>)>>)>>

\* `use Lib\B; namespace App { class A extends B {} } class C extends B {}`
FileOuterUse ==
    <<Use(<<Import(LibB, None)>>),
      Namespace(Some(App), <<Class(<<"A">>, <<(<<"B">>)>>, <<>>)>>),
      Class(<<"C">>, <<(<<"B">>)>>, <<>>)>>

\* `namespace App { use Lib\B; class A extends B {} } class C extends B {}`
FileInnerUse ==
    <<Namespace(Some(App), <<Use(<<Import(LibB, None)>>),
                             Class(<<"A">>, <<(<<"B">>)>>, <<>>)>>),
      Class(<<"C">>, <<(<<"B">>)>>, <<>>)>>

\* `namespace App; class A extends C {}`
FileAExtendsC == <<Namespace(Some(App), <<Class(<<"A">>, <<(<<"C">>)>>, <<>>)>>)>>

\* `namespace App; class A extends B {} class A extends C {}`
FileATwice ==
    <<Namespace(Some(App), <<Class(<<"A">>, <<(<<"B">>)>>, <<>>),
                             Class(<<"A">>, <<(<<"C">>)>>, <<>>)>>)>>

Programs ==
    {FileA, FileB, FileAInt, FileOuterUse, FileInnerUse, FileAExtendsC, FileATwice}

\* What read_file returns for a discovered file: Err, or Ok(content); the
\* content is known by the tree the parser builds from it and by whether the
\* parser reports an error with it (the tree is then partial)
Contents ==
    {None}
    \cup {Some([program |-> p, error |-> FALSE]) : p \in Programs}
    \cup {Some([program |-> FileB, error |-> TRUE])}

\* The display string of the i-th discovered path
PathOf(i) == <<"src", i, ".php">>

InitRun ==
    /\ imports = EmptyMap
    /\ res = NoCall
    /\ graph = DependencyGraph_new
    /\ op = NoOp
    /\ pre = DependencyGraph_new
    /\ inserted = <<>>
    /\ output = NoOutput
    /\ rec = NoRecommender
    /\ cycles = NoCycles
    /\ modules = NoModules
    /\ analyzer = ClassDependencyAnalyzer_new
    /\ cur = None
    /\ scopes = <<>>
    /\ steps = 0
    /\ visit = NoDecl
    /\ \E n \in 0..MaxFiles :
         \E contents \in [1..n -> Contents] :
            sources = [i \in 1..n |-> [path |-> PathOf(i), content |-> contents[i]]]
    /\ pos = 0

\* main, one turn of the loop over the files: read_file, then analyze or
\* the warning
AnalyzeFile ==
    /\ op = NoOp
    /\ pos < Len(sources)
    /\ analyzer' = analyze_file(analyzer, sources[pos + 1])
    /\ pos' = pos + 1
    /\ UNCHANGED <<resolverVars, graphVars, recommenderVars,
                   cur, scopes, steps, visit, sources>>

\* main, after the loop: analyzer.build_graph(cli.include_external)
BuildGraphAtEnd ==
    /\ pos = Len(sources)
    /\ BuildGraph

NextRun == AnalyzeFile \/ BuildGraphAtEnd

SpecRun == InitRun /\ [][NextRun]_vars

---------------------------------------------------------------------------
(* SpecScope: one file is analyzed whose declarations and use statements   *)
(* stand in one scope, in any sequence                                     *)

\* The most statements in the scope
MaxStatements == 5

LibC == <<"L", "i", "b", "\\", "C">>

\* `use Lib\B;`, `use Lib\C as B;`, `class A extends B {}`, `class C extends
\* B {}`
ScopeStatements ==
    {Use(<<Import(LibB, None)>>),
     Use(<<Import(LibC, Some(<<"B">>))>>),
     Class(<<"A">>, <<(<<"B">>)>>, <<>>),
     Class(<<"C">>, <<(<<"B">>)>>, <<>>)}

\* The statements at the top level of the file, inside `namespace App { }`
\* or inside `namespace { }`
ScopePrograms ==
    LET lists == UNION {[1..n -> ScopeStatements] : n \in 0..MaxStatements}
    IN  lists \cup {<<Namespace(ns, l)>> : ns \in {Some(App), None}, l \in lists}

InitScope ==
    /\ imports = EmptyMap
    /\ res = NoCall
    /\ graph = DependencyGraph_new
    /\ op = NoOp
    /\ pre = DependencyGraph_new
    /\ inserted = <<>>
    /\ output = NoOutput
    /\ rec = NoRecommender
    /\ cycles = NoCycles
    /\ modules = NoModules
    /\ analyzer = ClassDependencyAnalyzer_new
    /\ cur = None
    /\ scopes = <<>>
    /\ steps = 0
    /\ visit = NoDecl
    /\ \E p \in ScopePrograms :
         sources = <<[path |-> PathOf(1),
                      content |-> Some([program |-> p, error |-> FALSE])]>>
    /\ pos = 0

SpecScope == InitScope /\ [][NextRun]_vars

---------------------------------------------------------------------------
(* The visitor's contract                                                  *)

\* The identifiers a hint is composed of
RECURSIVE HintLeaves(_)
HintLeaves(hint) ==
    CASE hint.kind = "Identifier" -> {hint.name}
      [] hint.kind \in {"Parenthesized", "Nullable"} -> HintLeaves(hint.hint)
      [] hint.kind \in {"Union", "Intersection"} ->
            HintLeaves(hint.left) \cup HintLeaves(hint.right)
      [] OTHER -> {}

OptionalHintLeaves(hint) == IF hint.some THEN HintLeaves(hint.val) ELSE {}

SeqRange(q) == {q[i] : i \in 1..Len(q)}

\* The names a member spells in a trait use
MemberTraitRefs(member) ==
    IF member.kind = "TraitUse" THEN SeqRange(member.trait_names) ELSE {}

\* The names a member spells in a property, parameter or return type hint
MemberHintRefs(member) ==
    CASE member.kind = "Property" -> OptionalHintLeaves(member.hint)
      [] member.kind = "Method" ->
            OptionalHintLeaves(member.return_type_hint)
            \cup UNION {OptionalHintLeaves(h) : h \in SeqRange(member.parameters)}
      [] OTHER -> {}

\* The names a declaration spells as supertype, interface or trait use
NamePositionRefs(decl) ==
    SeqRange(decl.extends) \cup SeqRange(decl.implements)
    \cup UNION {MemberTraitRefs(m) : m \in SeqRange(decl.members)}

\* The names a declaration spells in a type hint
HintPositionRefs(decl) ==
    OptionalHintLeaves(decl.backing)
    \cup UNION {MemberHintRefs(m) : m \in SeqRange(decl.members)}

\* The dependencies the last visited declaration added to its entity
AddedDependencies ==
    (IF visit.fqn \in DOMAIN analyzer.dependencies
     THEN analyzer.dependencies[visit.fqn] ELSE {}) \ visit.before

ResolvedInVisit(names) ==
    {resolve_class_name(r, visit.namespace, visit.imports) : r \in names}

\* C4: a reference spelled as a built-in type name never becomes a dependency
\* edge, in whatever position of the declaration it occurs: every dependency a
\* declaration adds is the resolution of a reference not spelled as one.
C4_BuiltinNeverEdge ==
    visit.kind = "decl" =>
        AddedDependencies \subseteq
            ResolvedInVisit((NamePositionRefs(visit.decl) \cup HintPositionRefs(visit.decl))
                            \ BuiltinTypes)

\* The built-in names are filtered in the type-hint positions: every
\* dependency a declaration adds is the resolution of a supertype, interface
\* or trait name, or of a hint identifier that is not a built-in name
HintBuiltinsFiltered ==
    visit.kind = "decl" =>
        AddedDependencies \subseteq
            ResolvedInVisit(NamePositionRefs(visit.decl)
                            \cup {r \in HintPositionRefs(visit.decl) :
                                    ToLowercase(r) \notin BuiltinTypes})

---------------------------------------------------------------------------
(* The module recommender's contract                                       *)

\* The namespaces a suggestion lists
Members(m) == {m.namespaces[i] : i \in 1..Len(m.namespaces)}

\* No edge of the graph starts or ends in a namespace of the set S
NoEdgesAtAll(S) == \A e \in EdgeSet(graph) : e.from \notin S /\ e.to \notin S

\* 0.0 <= x <= 1.0
InUnitInterval(x) == x.den > 0 /\ 0 <= x.num /\ x.num <= x.den

\* C11: for every suggestion, the cohesion score is internal / (internal +
\* external) of its two dependency counts when their sum is positive; it is
\* exactly 1.0 when no edge of the graph touches the bucket; and it always
\* lies between 0 and 1 inclusive.
C11_Cohesion ==
    modules.done =>
        \A i \in 1..Len(modules.list) :
            LET m == modules.list[i]
                internal == m.internal_dependencies
                external == m.external_dependencies
            IN  /\ internal + external > 0 =>
                     m.cohesion_score = F64Div(internal, internal + external)
                /\ NoEdgesAtAll(Members(m)) => m.cohesion_score = F64One
                /\ InUnitInterval(m.cohesion_score)

\* One suggestion has internal and external edges and a cohesion strictly
\* between 0 and 1, another has no edges at all and cohesion 1.0
C11_Witness ==
    /\ modules.done
    /\ \E i, j \in 1..Len(modules.list) :
         /\ modules.list[i].internal_dependencies > 0
         /\ modules.list[i].external_dependencies > 0
         /\ F64Less(modules.list[i].cohesion_score, F64One)
         /\ NoEdgesAtAll(Members(modules.list[j]))
         /\ modules.list[j].cohesion_score = F64One

\* The positions of the suggestions that list the namespace n
SuggestionsOf(n) == {i \in 1..Len(modules.list) : n \in Members(modules.list[i])}

\* The class counts of the namespaces of S, added up
RECURSIVE ClassCountSum(_)
ClassCountSum(S) ==
    IF S = {} THEN 0
    ELSE LET n == CHOOSE x \in S : TRUE
         IN  rec.namespace_metrics[n].class_count + ClassCountSum(S \ {n})

\* C23: the suggestions partition the namespaces other than the global one
\* by first path segment: each such namespace is listed in exactly one
\* suggestion, once, and that suggestion is the one named by the text before
\* the namespace's first separator; the global namespace is listed in none;
\* and the class count of a suggestion is the sum of the class counts of the
\* namespaces it lists.
C23_PartitionByFirstSegment ==
    modules.done =>
        /\ \A n \in (DOMAIN graph.nodes) \ {GlobalNamespace} :
              /\ Cardinality(SuggestionsOf(n)) = 1
              /\ \A i \in SuggestionsOf(n) :
                    /\ modules.list[i].name \in
                          {FirstSegment(n), FirstSegment(n) \o CyclesSuffix}
                    /\ Cardinality({k \in 1..Len(modules.list[i].namespaces) :
                                        modules.list[i].namespaces[k] = n}) = 1
        /\ \A i \in 1..Len(modules.list) :
              /\ Members(modules.list[i]) # {}
              /\ Members(modules.list[i]) \subseteq (DOMAIN graph.nodes) \ {GlobalNamespace}
              /\ modules.list[i].class_count = ClassCountSum(Members(modules.list[i]))

\* The graph holds A, A\B, B and the global namespace; the suggestion A lists
\* A and A\B with 2 + 1 classes, the suggestion B lists B alone
C23_Witness ==
    /\ modules.done
    /\ DOMAIN graph.nodes = ModuleNs
    /\ Len(modules.list) = 2
    /\ \E i, j \in 1..2 :
         /\ Members(modules.list[i]) = {<<"A">>, <<"A", "\\", "B">>}
         /\ modules.list[i].class_count = 3
         /\ Members(modules.list[j]) = {<<"B">>}
         /\ modules.list[j].name = <<"B">>

\* The number of edges of the graph between namespace nodes, as the
\* recommender's DiGraph holds them, that satisfy the test on (from, to)
EdgesBetween(from_set, to_set) ==
    BagCountIn(graph.edges,
               {e \in EdgeSet(graph) : e.from \in from_set /\ e.to \in to_set})

\* C24: for every suggestion, internal_dependencies is the number of
\* namespace edges with both endpoints among its namespaces, and
\* external_dependencies is the number of namespace edges with exactly one
\* endpoint among them, those that leave the group and those that enter it.
C24_InternalExternalCounts ==
    modules.done =>
        \A i \in 1..Len(modules.list) :
            LET inside == Members(modules.list[i])
                outside == (DOMAIN graph.nodes) \ inside
            IN  /\ modules.list[i].internal_dependencies = EdgesBetween(inside, inside)
                /\ modules.list[i].external_dependencies =
                      EdgesBetween(inside, outside) + EdgesBetween(outside, inside)

\* The position in the iteration of namespace_metrics at which the bucket of
\* the suggestion m was discovered: that of the first of its namespaces
DiscoveryIndex(m) ==
    CHOOSE k \in 1..Len(modules.order) :
        /\ modules.order[k] \in Members(m)
        /\ \A l \in 1..(k - 1) : modules.order[l] \notin Members(m)

\* C25: the list suggest_modules returns is in descending order of cohesion
\* score, and two suggestions of equal cohesion stand in the order in which
\* their buckets were discovered.
C25_SortedStable ==
    modules.done =>
        \A i, j \in 1..Len(modules.list) :
            i < j =>
                /\ ~F64Less(modules.list[i].cohesion_score, modules.list[j].cohesion_score)
                /\ modules.list[i].cohesion_score = modules.list[j].cohesion_score =>
                      DiscoveryIndex(modules.list[i]) < DiscoveryIndex(modules.list[j])

\* Two suggestions of equal cohesion below 1.0, the bucket B discovered
\* before the bucket A and listed first
C25_Witness ==
    /\ modules.done
    /\ Len(modules.list) = 2
    /\ modules.list[1].cohesion_score = modules.list[2].cohesion_score
    /\ F64Less(modules.list[1].cohesion_score, F64One)
    /\ Members(modules.list[1]) = {<<"B">>}
    /\ <<"A">> \in Members(modules.list[2])
    /\ DiscoveryIndex(modules.list[1]) < DiscoveryIndex(modules.list[2])

---------------------------------------------------------------------------
(* The contract of the analysis run                                        *)

\* The trees of the files of the run, in discovery order (every file read)
RunPrograms == [i \in 1..Len(sources) |-> sources[i].content.val.program]

AllReadable == \A i \in 1..Len(sources) : sources[i].content.some

\* The run analyzed exactly the two files with the trees p and q, in either
\* order, and the graph was built
BuiltFromPair(p, q) ==
    /\ op.kind = "build_graph"
    /\ AllReadable
    /\ RunPrograms \in {<<p, q>>, <<q, p>>}

\* C12: from `namespace App; class A { public B $b; }` and `namespace App;
\* class B {}`, analyzed in either order and built with or without external
\* inclusion, the graph has exactly the nodes App\A and App\B and exactly the
\* edge App\A -> App\B; with `public int $x;` in place of the property it
\* has the same nodes and no edge.
C12_EndToEnd ==
    /\ BuiltFromPair(FileA, FileB) =>
         /\ DOMAIN graph.nodes = {AppA, AppB}
         /\ graph.edges = SetToBag({Edge_new(AppA, AppB)})
    /\ BuiltFromPair(FileAInt, FileB) =>
         /\ DOMAIN graph.nodes = {AppA, AppB}
         /\ graph.edges = EmptyBag

\* The file of B was analyzed before the file of A, the graph was built
\* without external inclusion and has an edge
C12_Witness ==
    /\ op.kind = "build_graph"
    /\ ~op.include_external
    /\ AllReadable
    /\ RunPrograms = <<FileB, FileA>>
    /\ graph.edges # EmptyBag

---------------------------------------------------------------------------
(* The CSV writer's contract                                               *)

\* The distinct elements of a sequence, in the order of their first occurrence
RECURSIVE FirstOccurrences(_)
FirstOccurrences(q) ==
    IF q = <<>> THEN <<>>
    ELSE LET front == FirstOccurrences(SubSeq(q, 1, Len(q) - 1))
             x == q[Len(q)]
         IN  IF \E i \in 1..Len(front) : front[i] = x THEN front ELSE Append(front, x)

\* C13: the lines written are the header "from,to", when and only when the
\* header is enabled, followed by one "from,to" row per edge of the graph, in
\* the order in which the edges were added to the graph.
C13_RowsInInsertionOrder ==
    output.written =>
        LET added == FirstOccurrences(inserted)
            rows == [i \in 1..Len(added) |-> CsvRow(added[i])]
        IN  /\ Len(added) = Cardinality(EdgeSet(graph))
            /\ output.lines = (IF output.include_header THEN <<CsvHeader>> ELSE <<>>) \o rows

\* namespace + separator + name, or the bare name outside any namespace
QualifiedName(name, namespace) ==
    IF namespace.some THEN namespace.val \o <<Sep>> \o name ELSE name

\* The entities the statements declare, read off the tree
RECURSIVE DeclaredNames(_, _)
DeclaredNames(statements, namespace) ==
    IF statements = <<>> THEN {}
    ELSE LET stmt == Head(statements)
             here == CASE stmt.kind = "Namespace" ->
                            DeclaredNames(stmt.statements,
                                          Some(extract_namespace_name(stmt.name)))
                       [] stmt.kind \in DeclarationKinds ->
                            {QualifiedName(stmt.name, namespace)}
                       [] OTHER -> {}
         IN  here \cup DeclaredNames(Tail(statements), namespace)

\* The files of the run that could be read
Readable == {i \in 1..Len(sources) : sources[i].content.some}

\* The entities declared by the files analyzed so far
DeclaredByRun ==
    UNION {DeclaredNames(sources[i].content.val.program, None) :
           i \in {j \in Readable : j <= pos}}

\* The (from, to) pairs collected by the analyzer
DependencyPairs ==
    {p \in (DOMAIN analyzer.dependencies) \X
           UNION {analyzer.dependencies[f] : f \in DOMAIN analyzer.dependencies} :
        p[2] \in analyzer.dependencies[p[1]]}

NodeType(n) ==
    IF "type" \in DOMAIN graph.nodes[n].metadata
    THEN Some(graph.nodes[n].metadata["type"])
    ELSE None

\* C14: a graph built with external inclusion disabled has exactly the
\* declared entities as nodes, each tagged internal, and every edge has both
\* endpoints among the declared entities.
C14_InternalOnly ==
    (op.kind = "build_graph" /\ ~op.include_external) =>
        /\ DOMAIN graph.nodes = DeclaredByRun
        /\ \A n \in DOMAIN graph.nodes : NodeType(n) = Some("internal")
        /\ \A e \in EdgeSet(graph) : e.from \in DeclaredByRun /\ e.to \in DeclaredByRun

\* A graph was built without external inclusion from an analyzer that holds a
\* dependency on an undeclared entity and one on a declared entity
C14_Witness ==
    /\ op.kind = "build_graph"
    /\ ~op.include_external
    /\ \E p \in DependencyPairs : p[2] \notin DeclaredByRun
    /\ \E p \in DependencyPairs : p[2] \in DeclaredByRun
    /\ graph.edges # EmptyBag

\* C15: in a graph built with external inclusion enabled, a node is tagged
\* external exactly when it is the target of a dependency and no analyzed
\* file declares it; every declared entity is a node tagged internal.
C15_ExternalTag ==
    (op.kind = "build_graph" /\ op.include_external) =>
        /\ \A n \in DOMAIN graph.nodes :
             NodeType(n) = Some("external")
                <=> (n \notin DeclaredByRun /\ \E p \in DependencyPairs : p[2] = n)
        /\ \A n \in DeclaredByRun :
             n \in DOMAIN graph.nodes /\ NodeType(n) = Some("internal")
        /\ \A p \in DependencyPairs :
             p[2] \notin DeclaredByRun => p[2] \in DOMAIN graph.nodes

\* App\B was referenced by the first file and declared by a later one; the
\* graph built with external inclusion has it internal and has an external
\* node as well
C15_Witness ==
    /\ op.kind = "build_graph"
    /\ op.include_external
    /\ Len(sources) >= 2
    /\ 1 \in Readable
    /\ AppB \notin DeclaredNames(sources[1].content.val.program, None)
    /\ \E p \in DependencyPairs : p[2] = AppB
    /\ AppB \in DeclaredByRun
    /\ NodeType(AppB) = Some("internal")
    /\ \E n \in DOMAIN graph.nodes : NodeType(n) = Some("external")

IsReadable(source) == source.content.some

\* The analyzer after analyze was called for each file of the list in turn
RECURSIVE AnalyzedInTurn(_, _)
AnalyzedInTurn(a, files) ==
    IF files = <<>> THEN a
    ELSE AnalyzedInTurn(analyze(a, Head(files).path, Head(files).content.val).analyzer,
                        Tail(files))

\* The readable files among the first n, in the same order
ReadableUpTo(n) == SelectSeq(SubSeq(sources, 1, n), IsReadable)

\* C16: unreadable files do not stop the run and leave no trace: after any
\* number of turns of the loop the analyzer's collections are those obtained
\* by analyzing only the readable files seen so far, in the same order; the
\* final graph is the graph of the readable files; and analyze returns Ok for
\* every readable file, parse error or not.
C16_UnreadableSkipped ==
    /\ analyzer = AnalyzedInTurn(ClassDependencyAnalyzer_new, ReadableUpTo(pos))
    /\ op.kind = "build_graph" =>
         /\ pos = Len(sources)
         /\ graph = build_graph(
                AnalyzedInTurn(ClassDependencyAnalyzer_new, ReadableUpTo(Len(sources))),
                op.include_external)
    /\ \A i \in Readable :
         analyze(ClassDependencyAnalyzer_new, sources[i].path, sources[i].content.val).ok

\* Something was collected, then a file could not be read, then a file whose
\* tree is partial was analyzed and added an entity, and the graph was built
C16_Witness ==
    /\ op.kind = "build_graph"
    /\ Len(sources) = 3
    /\ IsReadable(sources[1])
    /\ ~IsReadable(sources[2])
    /\ IsReadable(sources[3])
    /\ sources[3].content.val.error
    /\ AppA \in DOMAIN graph.nodes
    /\ AppB \in DOMAIN graph.nodes
    /\ graph.nodes[AppB].metadata["file"] = PathOf(3)

---------------------------------------------------------------------------
(* The cycle detector's contract, continued                                *)

\* The namespaces a reported cycle lists
CycleMembers(c) == {c.namespaces[k] : k \in 1..Len(c.namespaces)}

\* The namespaces that reach n and are reached from n, n itself included
MutualSet(n) ==
    {n} \cup {m \in DOMAIN graph.nodes : Reaches(graph, n, m) /\ Reaches(graph, m, n)}

\* The number of edges of the graph with both endpoints in S, self-loops and
\* parallel edges counted
InternalEdgeCount(S) ==
    BagCountIn(graph.edges, {e \in EdgeSet(graph) : e.from \in S /\ e.to \in S})

\* C17: a strongly connected component of two or more namespaces is reported
\* with a severity fixed by the number of edges inside it (0 to 2 Low, 3 to 5
\* Medium, 6 or more High) and a shape fixed by its size (2 Simple, 3 or more
\* Complex).
C17_SeverityByInternalEdges ==
    cycles.done =>
        \A n \in DOMAIN graph.nodes :
            Cardinality(MutualSet(n)) >= 2 =>
                \E i \in 1..Len(cycles.list) :
                    LET c == cycles.list[i]
                        k == InternalEdgeCount(MutualSet(n))
                    IN  /\ CycleMembers(c) = MutualSet(n)
                        /\ c.severity = (IF k <= 2 THEN "Low"
                                         ELSE IF k <= 5 THEN "Medium" ELSE "High")
                        /\ c.cycle_type = (IF Cardinality(MutualSet(n)) = 2
                                           THEN "Simple" ELSE "Complex")

\* A component of two namespaces with a self-loop inside, parallel edges and
\* an edge that leaves it was reported High, beside it a namespace outside
C17_Witness ==
    /\ cycles.done
    /\ \E i \in 1..Len(cycles.list) :
         LET c == cycles.list[i]
         IN  /\ Len(c.namespaces) = 2
             /\ c.severity = "High"
             /\ InternalEdgeCount(CycleMembers(c)) = 6
             /\ \E e \in EdgeSet(graph) : e.from = e.to /\ e.from \in CycleMembers(c)
             /\ \E e \in EdgeSet(graph) :
                    e.from \in CycleMembers(c) /\ e.to \notin CycleMembers(c)

\* C18: the reported cycles are the strongly connected components that hold a
\* directed cycle: a namespace is listed exactly when it reaches itself by
\* one or more edges, two namespaces share a cycle exactly when each reaches
\* the other, no namespace is listed twice, and every member list is in
\* ascending order.
C18_CyclesAreComponents ==
    cycles.done =>
        /\ \A n \in DOMAIN graph.nodes :
             /\ CyclesWith(n) # {} <=> Reaches(graph, n, n)
             /\ Cardinality(CyclesWith(n)) <= 1
        /\ \A n, m \in DOMAIN graph.nodes :
             n # m =>
                (CyclesWith(n) \cap CyclesWith(m) # {}
                    <=> (Reaches(graph, n, m) /\ Reaches(graph, m, n)))
        /\ \A i \in 1..Len(cycles.list) :
             LET ns == cycles.list[i].namespaces
             IN  /\ CycleMembers(cycles.list[i]) \subseteq DOMAIN graph.nodes
                 /\ \A k \in 1..(Len(ns) - 1) : StrLess(ns[k], ns[k + 1])

\* One cycle of two namespaces was reported, and a third namespace with an
\* edge into the cycle, but on no cycle itself, was left out
C18_Witness ==
    /\ cycles.done
    /\ Len(cycles.list) = 1
    /\ Len(cycles.list[1].namespaces) = 2
    /\ \E n \in DOMAIN graph.nodes :
         /\ CyclesWith(n) = {}
         /\ \E e \in EdgeSet(graph) : e.from = n /\ e.to # n

\* One or more files were analyzed, all readable and all with the tree p
AnalyzedOnly(p) ==
    /\ pos >= 1
    /\ \A i \in 1..pos : IsReadable(sources[i]) /\ sources[i].content.val.program = p

\* C19: a namespace block is visited with an import table of its own. With
\* `use Lib\B;` at file level only, `extends B` inside `namespace App { }`
\* resolves to App\B while the same reference after the block resolves to
\* Lib\B; with the use declaration inside the block, the reference inside
\* resolves to Lib\B and the reference after the block to the bare B.
C19_ScopedImports ==
    /\ AnalyzedOnly(FileOuterUse) =>
         analyzer.dependencies =
            [n \in {AppA, <<"C">>} |-> IF n = AppA THEN {AppB} ELSE {LibB}]
    /\ AnalyzedOnly(FileInnerUse) =>
         analyzer.dependencies =
            [n \in {AppA, <<"C">>} |-> IF n = AppA THEN {LibB} ELSE {<<"B">>}]

\* The file with the use declaration at file level was analyzed: the
\* reference inside the block and the one after it resolved differently
C19_Witness ==
    /\ pos = 1
    /\ AnalyzedOnly(FileOuterUse)
    /\ AppB \in analyzer.dependencies[AppA]
    /\ LibB \in analyzer.dependencies[<<"C">>]

\* The analyzed files that declare the entity n
DeclaringFiles(n) ==
    {i \in Readable : i <= pos /\ n \in DeclaredNames(sources[i].content.val.program, None)}

\* The dependencies of n that file i yields when analyzed on its own
DependenciesAlone(i, n) ==
    LET a == analyze(ClassDependencyAnalyzer_new, sources[i].path,
                     sources[i].content.val).analyzer
    IN  IF n \in DOMAIN a.dependencies THEN a.dependencies[n] ELSE {}

CollectedDependencies(n) ==
    IF n \in DOMAIN analyzer.dependencies THEN analyzer.dependencies[n] ELSE {}

\* C20: there is one entity per fully qualified name. Its file path is that
\* of the last analyzed file that declares it, its dependencies are the union
\* of those of all its declarations, across files and within one file, and
\* the graph has one node for it, with that path, and one edge per dependency.
C20_LastPathUnionDeps ==
    /\ DOMAIN analyzer.classes = DeclaredByRun
    /\ \A n \in DeclaredByRun :
         /\ \E i \in DeclaringFiles(n) :
              /\ \A j \in DeclaringFiles(n) : j <= i
              /\ analyzer.classes[n] = PathOf(i)
              /\ op.kind = "build_graph" =>
                    /\ n \in DOMAIN graph.nodes
                    /\ graph.nodes[n].metadata["file"] = PathOf(i)
         /\ CollectedDependencies(n) = UNION {DependenciesAlone(i, n) : i \in DeclaringFiles(n)}
         /\ (op.kind = "build_graph" /\ op.include_external) =>
              \A t \in CollectedDependencies(n) : EdgeCopies(graph, n, t) = 1
    /\ AnalyzedOnly(FileATwice) => CollectedDependencies(AppA) = {AppB, AppC}

\* App\A was declared by the first file and again, with another dependency,
\* by the second; the graph built has its node with the path of the second
\* file and both edges
C20_Witness ==
    /\ op.kind = "build_graph"
    /\ op.include_external
    /\ Len(sources) = 2
    /\ DeclaringFiles(AppA) = {1, 2}
    /\ graph.nodes[AppA].metadata["file"] = PathOf(2)
    /\ DependenciesAlone(1, AppA) = {AppB}
    /\ DependenciesAlone(2, AppA) = {AppC}
    /\ EdgeCopies(graph, AppA, AppB) = 1
    /\ EdgeCopies(graph, AppA, AppC) = 1

---------------------------------------------------------------------------
(* The visitor's contract, continued                                       *)

\* The dependencies the analyzer holds for the entity n
DependenciesOf(n) ==
    IF n \in DOMAIN analyzer.dependencies THEN analyzer.dependencies[n] ELSE {}

\* The names the members of a declaration spell in trait-use clauses
TraitUseRefs(decl) == UNION {MemberTraitRefs(m) : m \in SeqRange(decl.members)}

\* C21: a trait-use clause in the body of a class, trait, enum or interface
\* gives the declaring entity a dependency on each named trait, resolved
\* through the resolver.
C21_TraitUseAnyBody ==
    visit.kind = "decl" =>
        ResolvedInVisit(TraitUseRefs(visit.decl)) \subseteq DependenciesOf(visit.fqn)

\* The names the members of a declaration spell in property, parameter and
\* return type hints, the built-in names left out
MemberClassRefs(decl) ==
    {r \in UNION {MemberHintRefs(m) : m \in SeqRange(decl.members)} :
        ToLowercase(r) \notin BuiltinTypes}

---------------------------------------------------------------------------
(* Independence of order                                                   *)

\* The sequence s rearranged: every order of its positions
Rearranged(s) == {[i \in 1..Len(s) |-> s[o[i]]] : o \in Orders(1..Len(s))}

\* The graph after add_edge was called for each edge of the list in turn
RECURSIVE AddedInTurn(_, _)
AddedInTurn(g, edges) ==
    IF edges = <<>> THEN g
    ELSE AddedInTurn(add_edge(g, Head(edges)), Tail(edges))

\* The analyzer after the loop body of main ran for each file of the list
RECURSIVE LoopedOver(_, _)
LoopedOver(a, files) ==
    IF files = <<>> THEN a
    ELSE LoopedOver(analyze_file(a, Head(files)), Tail(files))

\* The result of analyzing one file on its own
AnalyzedAlone(source) == analyze_file(ClassDependencyAnalyzer_new, source)

\* Two graphs with the same node ids and the same edges
SameIdsAndEdges(g, h) == DOMAIN g.nodes = DOMAIN h.nodes /\ g.edges = h.edges

\* C26: the node ids and the edges of the result do not depend on order.
\* Adding the same edges to an empty graph in any order gives the same edges
\* and node ids (for the calls of add_edge made so far, and for the edges
\* the graph holds). Analyzing the same files in any order, or merging the
\* results of analyzing each file alone, gives the same declared entities
\* and the same dependencies, and the graphs built from them have the same
\* node ids and edges; only the recorded file path may differ.
C26_OrderIndependent ==
    /\ \A o \in Rearranged(inserted) :
          SameIdsAndEdges(AddedInTurn(DependencyGraph_new, o),
                          AddedInTurn(DependencyGraph_new, inserted))
    /\ \A o \in Orders(EdgeSet(graph)) :
          /\ AddedInTurn(DependencyGraph_new, o).edges = graph.edges
          /\ DOMAIN AddedInTurn(DependencyGraph_new, o).nodes =
                UNION {{e.from, e.to} : e \in EdgeSet(graph)}
    /\ \A o \in Rearranged(SubSeq(sources, 1, pos)) :
          LET a == LoopedOver(ClassDependencyAnalyzer_new, o)
          IN  /\ DOMAIN a.classes = DOMAIN analyzer.classes
              /\ a.dependencies = analyzer.dependencies
              /\ op.kind = "build_graph" =>
                    SameIdsAndEdges(build_graph(a, op.include_external), graph)
    /\ DOMAIN analyzer.classes =
          UNION {DOMAIN AnalyzedAlone(sources[i]).classes : i \in 1..pos}
    /\ \A n \in DOMAIN analyzer.classes :
          DependenciesOf(n) =
              UNION {IF n \in DOMAIN AnalyzedAlone(sources[i]).dependencies
                     THEN AnalyzedAlone(sources[i]).dependencies[n]
                     ELSE {} : i \in 1..pos}

\* Three files were analyzed, two of which declare App\A with different
\* dependencies and so record different paths in the two orders; the graph
\* built holds at least two edges
C26_Witness ==
    /\ op.kind = "build_graph"
    /\ pos = 3
    /\ \E i, j \in 1..3 :
         /\ i < j
         /\ IsReadable(sources[i]) /\ sources[i].content.val.program = FileA
         /\ IsReadable(sources[j]) /\ sources[j].content.val.program = FileAExtendsC
    /\ \E o \in Rearranged(sources) :
         LoopedOver(ClassDependencyAnalyzer_new, o).classes # analyzer.classes
    /\ Cardinality(EdgeSet(graph)) >= 2

---------------------------------------------------------------------------
(* Use declarations within one scope                                       *)

\* The file of SpecScope: its scope is a namespace block or the top level
InBlock == Len(sources[1].content.val.program) = 1
           /\ sources[1].content.val.program[1].kind = "Namespace"

\* The statements of the scope, in source order
ScopeBody ==
    IF InBlock THEN sources[1].content.val.program[1].statements
    ELSE sources[1].content.val.program

\* The namespace the statements of the scope are visited with
ScopeNamespace ==
    IF InBlock THEN Some(extract_namespace_name(sources[1].content.val.program[1].name))
    ELSE None

\* The positions of the declarations in the scope
DeclPositions == {k \in 1..Len(ScopeBody) : ScopeBody[k].kind \in DeclarationKinds}

\* The items of the use statements that stand before position k
RECURSIVE ItemsBefore(_)
ItemsBefore(k) ==
    IF k <= 1 THEN <<>>
    ELSE ItemsBefore(k - 1)
         \o (IF ScopeBody[k - 1].kind = "Use" THEN ScopeBody[k - 1].items ELSE <<>>)

\* The short name a use item binds
BoundName(item) == IF item.alias.some THEN item.alias.val ELSE LastSegment(item.name)

\* What the reference ref means at position k: the full name of the last use
\* item before k that binds it, or its namespace-relative resolution
MeaningAt(k, ref) ==
    LET items == ItemsBefore(k)
        binding == {i \in 1..Len(items) : BoundName(items[i]) = ref}
    IN  IF binding = {} THEN resolve_class_name(ref, ScopeNamespace, EmptyMap)
        ELSE items[CHOOSE i \in binding : \A j \in binding : j <= i].name

\* C27: within one scope a use declaration acts only on the declarations
\* visited after it. Every declaration resolves a short name by the last use
\* declaration before it that binds the name, a later one replacing an
\* earlier one, and namespace-relative when no use declaration precedes it.
C27_UseActsForward ==
    pos = 1 =>
        \A k \in DeclPositions :
            LET n == get_fqn(ScopeBody[k].name, ScopeNamespace)
            IN  DependenciesOf(n) =
                    {MeaningAt(l, ScopeBody[l].extends[1]) :
                        l \in {m \in DeclPositions :
                                get_fqn(ScopeBody[m].name, ScopeNamespace) = n}}

\* `namespace App { class A extends B {} use Lib\B; class C extends B {}
\* use Lib\C as B; class A extends B {} }` was analyzed
C27_Witness ==
    /\ pos = 1
    /\ sources[1].content.val.program =
         <<Namespace(Some(App),
            <<Class(<<"A">>, <<(<<"B">>)>>, <<>>),
              Use(<<Import(LibB, None)>>),
              Class(<<"C">>, <<(<<"B">>)>>, <<>>),
              Use(<<Import(LibC, Some(<<"B">>))>>),
              Class(<<"A">>, <<(<<"B">>)>>, <<>>)>>)>>
    /\ DependenciesOf(AppA) = {AppB, LibC}
    /\ DependenciesOf(AppC) = {LibB}

\* The scope of the file is a namespace block without a name
InUnnamedBlock == InBlock /\ ~sources[1].content.val.program[1].name.some

\* The analyzer after a file with the statements of the scope at its top
\* level, outside any namespace block, was analyzed
AtTopLevel ==
    analyze(ClassDependencyAnalyzer_new, sources[1].path,
            [program |-> ScopeBody, error |-> FALSE]).analyzer

\* C28: a declaration in a namespace block without a name is registered
\* under the name the same declaration has at the top level of a file, its
\* bare name without a leading separator, and a bare reference in such a
\* block that no use declaration binds resolves to the bare name.
C28_UnnamedBlockIsGlobal ==
    (pos = 1 /\ InUnnamedBlock) =>
        /\ DOMAIN analyzer.classes = {ScopeBody[k].name : k \in DeclPositions}
        /\ analyzer = AtTopLevel

---------------------------------------------------------------------------
(* Shapes and severities that go together                                  *)

\* The graph holds at most one edge per (from, to) pair
UniqueEdges ==
    \A e1, e2 \in EdgeSet(graph) : (e1.from = e2.from /\ e1.to = e2.to) => e1 = e2

\* C29: for a namespace graph with at most one edge per (from, to) pair, a
\* Complex cycle has severity Medium or High and never Low, and a Simple
\* cycle has severity Low or Medium and never High.
C29_ShapeBoundsSeverity ==
    (cycles.done /\ UniqueEdges) =>
        \A i \in 1..Len(cycles.list) :
            /\ cycles.list[i].cycle_type = "Complex" =>
                  cycles.list[i].severity \in {"Medium", "High"}
            /\ cycles.list[i].cycle_type = "Simple" =>
                  cycles.list[i].severity \in {"Low", "Medium"}

\* A graph with one edge per pair whose two namespaces A and B hold all four
\* edges possible between them, self-loops included, and an edge to a third
C29_Witness ==
    /\ cycles.done
    /\ UniqueEdges
    /\ \E i \in 1..Len(cycles.list) :
         /\ cycles.list[i].cycle_type = "Simple"
         /\ cycles.list[i].severity = "Medium"
         /\ InternalEdgeCount(CycleMembers(cycles.list[i])) = 4
         /\ \E e \in EdgeSet(graph) :
                e.from \in CycleMembers(cycles.list[i])
                /\ e.to \notin CycleMembers(cycles.list[i])

---------------------------------------------------------------------------
(* The graph without external targets inside the graph with them           *)

\* The graph g without the nodes outside `ids` and the edges that end there
RestrictedTo(g, ids) ==
    LET kept == {e \in EdgeSet(g) : e.to \in ids}
    IN  [nodes |-> [n \in (DOMAIN g.nodes) \cap ids |-> g.nodes[n]],
         edges |-> [e \in kept |-> CopiesIn(e, g.edges)]]

\* C30: for every analyzer state the graph built without external inclusion
\* is a subgraph of the graph built with it: its nodes and edges are among
\* those of the larger graph, it is the larger graph restricted to the
\* declared entities and the edges that end in one, every edge of either
\* graph starts in a declared entity, and a build leaves the analyzer as it
\* was, so that building again returns the graph just built.
C30_InternalIsSubgraph ==
    LET without == build_graph(analyzer, FALSE)
        with == build_graph(analyzer, TRUE)
        declared == DOMAIN analyzer.classes
    IN  /\ DOMAIN without.nodes \subseteq DOMAIN with.nodes
        /\ \A n \in DOMAIN without.nodes : without.nodes[n] = with.nodes[n]
        /\ without.edges \sqsubseteq with.edges
        /\ without = RestrictedTo(with, declared)
        /\ \A e \in EdgeSet(with) \cup EdgeSet(without) : e.from \in declared
        /\ op.kind = "build_graph" =>
              graph = (IF op.include_external THEN with ELSE without)

\* After all files were analyzed the graph was built without external
\* inclusion; it has an edge, and the graph with external inclusion has an
\* edge and a node more
C30_Witness ==
    /\ op.kind = "build_graph"
    /\ ~op.include_external
    /\ pos = Len(sources)
    /\ graph.edges # EmptyBag
    /\ graph.edges # build_graph(analyzer, TRUE).edges
    /\ DOMAIN graph.nodes # DOMAIN build_graph(analyzer, TRUE).nodes

====
